---- MODULE Spec2Model ----
(***************************************************************************)
(* State-machine model of FishEyePanoramaRenderer (core renderer of the    *)
(* fish-eye panorama viewer) together with the helpers of projection.ts    *)
(* and types.ts that its handlers call.                                    *)
(*                                                                         *)
(* Number representation (the source works on IEEE doubles):               *)
(*   - angles (pitch, key step, drag deltas) are integers counting half    *)
(*     degrees, so that the default sensitivity 0.5 deg/px is 1; Deg(d)    *)
(*     converts a number of degrees of the source; on the values of the    *)
(*     model these sums are exact in doubles;                              *)
(*   - the yaw goes through degToRad and radToDeg at every step, which     *)
(*     does not return the double it was given: a yaw is the integer       *)
(*     n * YawScale + k, n the nearest count of half degrees and k the     *)
(*     signed number of the double among the doubles nearest to n / 2 that *)
(*     the runs of the model produce (k = 0: the double is exactly n / 2,  *)
(*     k < 0: it lies below n / 2, k > 0: above).  NormalizedSumTable      *)
(*     lists the double each step yields wherever k is not 0;              *)
(*   - zoom values are integers counting tenths (1.0 is 10, 0.1 is 1); the *)
(*     rounding of the sums zoom + 0.1 and zoom - 0.1 is not modelled.     *)
(* The write-only field _dragStartState is not modelled (never read).      *)
(***************************************************************************)
EXTENDS Integers, FiniteSets, Sequences, TLC

\* ------------------------------------------------------------- bounds
\* camera-changing calls (drag-move, wheel, arrow key, setState) per run
MaxMutations == 2
\* loadImage calls per run
MaxLoads == 2
\* setLabels, resize and destroy calls per run
MaxLifecycle == 2
\* callbacks requestAnimationFrame may hold at once in the model
MaxFrames == 2

\* ---------------------------------------------------------- constants
\* null for the string-valued fields (image, sourceCanvas, sourceData, labels)
NULL == "null"
\* an optional value: absent (undefined / null), or present
None == <<>>
Some(v) == <<v>>

Deg(d) == d * 2

\* codes of the yaw per half degree
YawScale == 64
Yaw(d) == Deg(d) * YawScale

\* types.ts CONSTRAINTS
MIN_CANVAS_SIZE == 100
MIN_IMAGE_WIDTH == 512
MIN_IMAGE_HEIGHT == 256
MAX_IMAGE_WIDTH == 8192
MAX_IMAGE_HEIGHT == 4096
\* zoom defaults, in tenths
DEFAULT_MIN_ZOOM == 5
DEFAULT_MAX_ZOOM == 30
DEFAULT_FOV == 90
MIN_PITCH == Deg(-90)
MAX_PITCH == Deg(90)

\* a key step of 10 degrees
step_Ten == Deg(10)

\* handleKeyDown: const step = 5 (degrees)
step == Deg(5)

\* ProjectionType enum
RECTILINEAR == "rectilinear"
STEREOGRAPHIC == "stereographic"
EQUIDISTANT == "equidistant"
EQUISOLID == "equisolid"
ProjectionTypes == {RECTILINEAR, STEREOGRAPHIC, EQUIDISTANT, EQUISOLID}

\* ------------------------------------------------------------ helpers
Min2(a, b) == IF a < b THEN a ELSE b
Max2(a, b) == IF a > b THEN a ELSE b

\* clamp without its upper bound
clamp_NoUpper(value, min, max) == Max2(min, value)

\* projection.ts clamp: Math.max(min, Math.min(max, value))
clamp(value, min, max) == Max2(min, Min2(max, value))

\* projection.ts normalizeAngle, on yaw codes: PI is Yaw(180)
RECURSIVE normalizeAngle(_)
normalizeAngle(angle) ==
  IF angle > Yaw(180) THEN normalizeAngle(angle - Yaw(360))
  ELSE IF angle < Yaw(-180) THEN normalizeAngle(angle + Yaw(360))
  ELSE angle

\* radToDeg(normalizeAngle(degToRad(y + d))) evaluated on IEEE doubles, with
\* degToRad(x) = x * (Math.PI / 180) and radToDeg(x) = x * (180 / Math.PI):
\* <<y, d>> :> r for the yaw code y, the delta d in half degrees and the
\* yaw code r of the result, wherever y or r is not a multiple of half a
\* degree (elsewhere the result is the exact normalized sum).
NormalizedSumTable ==
  (  <<-23040, -20>> :> 21759 @@ <<-23040, 1400>> :> 20481 @@ <<-23039, -40>> :> 20481 @@
     <<-23039, -20>> :> 21761 @@ <<-23039, -10>> :> 22401 @@ <<-23039, 0>> :> -23039 @@
     <<-23039, 10>> :> -22399 @@ <<-23039, 40>> :> -20479 @@ <<-23039, 1400>> :> 20481 @@
     <<-22400, 1400>> :> 21121 @@ <<-22399, -10>> :> -23039 @@ <<-22399, 10>> :> -21759 @@
     <<-21760, -40>> :> 21759 @@ <<-21759, -40>> :> 21761 @@ <<-21759, -20>> :> -23039 @@
     <<-21759, -10>> :> -22399 @@ <<-21759, 0>> :> -21759 @@ <<-21759, 10>> :> -21119 @@
     <<-21759, 40>> :> -19199 @@ <<-21759, 1400>> :> 21760 @@ <<-21121, 10>> :> -20481 @@
     <<-21119, -10>> :> -21759 @@ <<-21119, 10>> :> -20479 @@ <<-20481, -10>> :> -21121 @@
     <<-20479, -10>> :> -21119 @@ <<-19839, 10>> :> -19199 @@ <<-19199, -10>> :> -19839) @@
  (  <<-17920, 40>> :> -15359 @@ <<-17920, 1400>> :> -20481 @@ <<-15999, 10>> :> -15359 @@
     <<-15359, -10>> :> -15999 @@ <<-7039, 10>> :> -6399 @@ <<-7038, 10>> :> -6398 @@
     <<-7037, 10>> :> -6397 @@ <<-6399, -10>> :> -7039 @@ <<-6398, -10>> :> -7038 @@
     <<-6397, -10>> :> -7037 @@ <<-5759, 10>> :> -5119 @@ <<-5758, 10>> :> -5118 @@
     <<-5757, 10>> :> -5117 @@ <<-5756, 10>> :> -5116 @@ <<-5755, 10>> :> -5116 @@
     <<-5119, -10>> :> -5759 @@ <<-5119, 10>> :> -4479 @@ <<-5118, -10>> :> -5758 @@
     <<-5118, 10>> :> -4478 @@ <<-5117, -10>> :> -5757 @@ <<-5116, -10>> :> -5756 @@
     <<-5116, 10>> :> -4477 @@ <<-5115, -10>> :> -5755 @@ <<-4481, 10>> :> -3841 @@
     <<-4480, 10>> :> -3839 @@ <<-4479, -10>> :> -5119 @@ <<-4479, 10>> :> -3838) @@
  (  <<-4478, -10>> :> -5118 @@ <<-4477, -10>> :> -5116 @@ <<-4477, 10>> :> -3836 @@
     <<-4476, -10>> :> -5116 @@ <<-4475, 10>> :> -3837 @@ <<-3841, -10>> :> -4481 @@
     <<-3839, -40>> :> -6400 @@ <<-3839, -20>> :> -5120 @@ <<-3839, -10>> :> -4480 @@
     <<-3839, 0>> :> -3839 @@ <<-3839, 10>> :> -3199 @@ <<-3839, 40>> :> -1278 @@
     <<-3839, 1400>> :> -6397 @@ <<-3838, -40>> :> -6399 @@ <<-3838, -20>> :> -5119 @@
     <<-3838, -10>> :> -4479 @@ <<-3838, 0>> :> -3838 @@ <<-3838, 10>> :> -3198 @@
     <<-3838, 40>> :> -1276 @@ <<-3838, 1400>> :> -6397 @@ <<-3837, -10>> :> -4475 @@
     <<-3837, 10>> :> -3195 @@ <<-3836, -40>> :> -6398 @@ <<-3836, -20>> :> -5116 @@
     <<-3836, -10>> :> -4477 @@ <<-3836, 0>> :> -3836 @@ <<-3836, 10>> :> -3193) @@
  (  <<-3836, 40>> :> -1270 @@ <<-3836, 1400>> :> -6397 @@ <<-3835, 10>> :> -3192 @@
     <<-3834, 10>> :> -3194 @@ <<-3201, 10>> :> -2561 @@ <<-3200, -10>> :> -3839 @@
     <<-3199, -10>> :> -3839 @@ <<-3198, -10>> :> -3838 @@ <<-3198, 10>> :> -2559 @@
     <<-3197, -10>> :> -3838 @@ <<-3197, 10>> :> -2558 @@ <<-3196, -10>> :> -3835 @@
     <<-3196, 10>> :> -2557 @@ <<-3195, -10>> :> -3837 @@ <<-3195, 10>> :> -2557 @@
     <<-3194, -10>> :> -3834 @@ <<-3194, 10>> :> -2555 @@ <<-3193, -10>> :> -3836 @@
     <<-2561, -10>> :> -3201 @@ <<-2560, -20>> :> -3839 @@ <<-2560, 10>> :> -1919 @@
     <<-2560, 700>> :> -3841 @@ <<-2560, 1400>> :> -5115 @@ <<-2559, -10>> :> -3198 @@
     <<-2559, 10>> :> -1917 @@ <<-2558, -40>> :> -5118 @@ <<-2558, -20>> :> -3838) @@
  (  <<-2558, -10>> :> -3197 @@ <<-2558, 0>> :> -2558 @@ <<-2558, 10>> :> -1916 @@
     <<-2558, 20>> :> -1275 @@ <<-2558, 40>> :> 4 @@ <<-2558, 700>> :> -3841 @@
     <<-2558, 1400>> :> -5115 @@ <<-2557, -10>> :> -3196 @@ <<-2557, 10>> :> -1915 @@
     <<-2556, -40>> :> -5117 @@ <<-2556, -20>> :> -3837 @@ <<-2556, -10>> :> -3195 @@
     <<-2556, 0>> :> -2557 @@ <<-2556, 10>> :> -1914 @@ <<-2556, 20>> :> -1272 @@
     <<-2556, 40>> :> 6 @@ <<-2556, 700>> :> -3841 @@ <<-2556, 1400>> :> -5115 @@
     <<-2555, -10>> :> -3194 @@ <<-2554, 10>> :> -1918 @@ <<-1924, 10>> :> -1284 @@
     <<-1923, 10>> :> -1286 @@ <<-1922, 10>> :> -1285 @@ <<-1921, -10>> :> -2560 @@
     <<-1921, 10>> :> -1281 @@ <<-1919, -40>> :> -4480 @@ <<-1919, -20>> :> -3200) @@
  (  <<-1919, -10>> :> -2560 @@ <<-1919, 0>> :> -1919 @@ <<-1919, 10>> :> -1279 @@
     <<-1919, 20>> :> -639 @@ <<-1919, 40>> :> 641 @@ <<-1919, 700>> :> -3194 @@
     <<-1919, 1400>> :> -4476 @@ <<-1918, -10>> :> -2554 @@ <<-1918, 10>> :> -1278 @@
     <<-1917, -10>> :> -2559 @@ <<-1917, 10>> :> -1276 @@ <<-1916, -40>> :> -4478 @@
     <<-1916, -20>> :> -3197 @@ <<-1916, -10>> :> -2558 @@ <<-1916, 0>> :> -1916 @@
     <<-1916, 10>> :> -1275 @@ <<-1916, 20>> :> -635 @@ <<-1916, 40>> :> 643 @@
     <<-1916, 700>> :> -3194 @@ <<-1916, 1400>> :> -4476 @@ <<-1915, -40>> :> -4478 @@
     <<-1915, -20>> :> -3196 @@ <<-1915, -10>> :> -2557 @@ <<-1915, 0>> :> -1915 @@
     <<-1915, 10>> :> -1273 @@ <<-1915, 20>> :> -633 @@ <<-1915, 40>> :> 645) @@
  (  <<-1915, 700>> :> -3194 @@ <<-1915, 1400>> :> -4476 @@ <<-1914, -10>> :> -2557 @@
     <<-1914, 10>> :> -1268 @@ <<-1913, 10>> :> -1267 @@ <<-1912, 10>> :> -1270 @@
     <<-1287, 10>> :> -643 @@ <<-1285, 10>> :> -642 @@ <<-1284, -10>> :> -1924 @@
     <<-1284, 10>> :> -645 @@ <<-1283, -10>> :> -1923 @@ <<-1282, -10>> :> -1922 @@
     <<-1281, -10>> :> -1921 @@ <<-1281, 10>> :> -641 @@ <<-1280, -40>> :> -3839 @@
     <<-1280, -10>> :> -1919 @@ <<-1280, 700>> :> -2556 @@ <<-1280, 1400>> :> -3836 @@
     <<-1279, -10>> :> -1919 @@ <<-1279, 10>> :> -639 @@ <<-1278, -10>> :> -1918 @@
     <<-1278, 10>> :> -630 @@ <<-1277, -10>> :> -1918 @@ <<-1277, 10>> :> -638 @@
     <<-1276, -10>> :> -1917 @@ <<-1275, -40>> :> -3838 @@ <<-1275, -20>> :> -2559) @@
  (  <<-1275, -10>> :> -1917 @@ <<-1275, 0>> :> -1275 @@ <<-1275, 10>> :> -636 @@
     <<-1275, 20>> :> 3 @@ <<-1275, 40>> :> 1282 @@ <<-1275, 700>> :> -2556 @@
     <<-1275, 1400>> :> -3836 @@ <<-1274, -40>> :> -3838 @@ <<-1274, -20>> :> -2558 @@
     <<-1274, -10>> :> -1916 @@ <<-1274, 0>> :> -1275 @@ <<-1274, 10>> :> -635 @@
     <<-1274, 20>> :> 4 @@ <<-1274, 40>> :> 1283 @@ <<-1274, 700>> :> -2556 @@
     <<-1274, 1400>> :> -3836 @@ <<-1273, -10>> :> -1915 @@ <<-1273, 10>> :> -633 @@
     <<-1272, -10>> :> -1914 @@ <<-1271, -10>> :> -1913 @@ <<-1271, 10>> :> -631 @@
     <<-1270, -10>> :> -1912 @@ <<-1269, 10>> :> -634 @@ <<-1267, 10>> :> -632 @@
     <<-647, 10>> :> -4 @@ <<-646, 10>> :> -2 @@ <<-645, -10>> :> -1284) @@
  (  <<-645, 10>> :> -6 @@ <<-644, -10>> :> -1284 @@ <<-643, -10>> :> -1287 @@
     <<-643, 10>> :> -5 @@ <<-642, -10>> :> -1285 @@ <<-642, 10>> :> -3 @@
     <<-641, -40>> :> -3200 @@ <<-641, -20>> :> -1921 @@ <<-641, -10>> :> -1281 @@
     <<-641, 0>> :> -641 @@ <<-641, 10>> :> -1 @@ <<-641, 40>> :> 1919 @@
     <<-641, 1400>> :> -3194 @@ <<-640, -20>> :> -1919 @@ <<-640, 40>> :> 1919 @@
     <<-640, 700>> :> -1915 @@ <<-640, 1400>> :> -3194 @@ <<-639, -10>> :> -1279 @@
     <<-638, -10>> :> -1278 @@ <<-638, 10>> :> 9 @@ <<-637, -40>> :> -3198 @@
     <<-637, -20>> :> -1918 @@ <<-637, -10>> :> -1277 @@ <<-637, 0>> :> -638 @@
     <<-637, 10>> :> 1 @@ <<-637, 20>> :> 642 @@ <<-637, 40>> :> 1921) @@
  (  <<-637, 700>> :> -1915 @@ <<-637, 1400>> :> -3194 @@ <<-636, -10>> :> -1275 @@
     <<-636, 10>> :> 3 @@ <<-635, -40>> :> -3197 @@ <<-635, -20>> :> -1916 @@
     <<-635, -10>> :> -1275 @@ <<-635, 0>> :> -635 @@ <<-635, 10>> :> 4 @@
     <<-635, 20>> :> 643 @@ <<-635, 40>> :> 1923 @@ <<-635, 700>> :> -1915 @@
     <<-635, 1400>> :> -3194 @@ <<-634, -10>> :> -1269 @@ <<-633, -10>> :> -1273 @@
     <<-633, 10>> :> 5 @@ <<-632, -10>> :> -1267 @@ <<-631, -10>> :> -1271 @@
     <<-631, 10>> :> 12 @@ <<-629, 10>> :> 2 @@ <<-628, 10>> :> 6 @@
     <<-9, 10>> :> 631 @@ <<-8, 10>> :> 633 @@ <<-7, 10>> :> 637 @@
     <<-6, -40>> :> -2561 @@ <<-6, -20>> :> -1284 @@ <<-6, -10>> :> -645) @@
  (  <<-6, 0>> :> -6 @@ <<-6, 10>> :> 632 @@ <<-6, 40>> :> 2557 @@
     <<-6, 1400>> :> -2556 @@ <<-5, -10>> :> -643 @@ <<-5, 10>> :> 634 @@
     <<-4, -10>> :> -647 @@ <<-4, 10>> :> 635 @@ <<-3, -10>> :> -642 @@
     <<-3, 10>> :> 637 @@ <<-2, -10>> :> -646 @@ <<-2, 10>> :> 638 @@
     <<-1, -10>> :> -641 @@ <<-1, 10>> :> 639 @@ <<0, 700>> :> -1274 @@
     <<0, 1400>> :> -2556 @@ <<1, -10>> :> -638 @@ <<1, 10>> :> 642 @@
     <<2, -10>> :> -629 @@ <<3, -10>> :> -636 @@ <<4, -20>> :> -1275 @@
     <<4, -10>> :> -635 @@ <<4, 0>> :> 4 @@ <<4, 10>> :> 643 @@
     <<4, 20>> :> 1283 @@ <<4, 700>> :> -1274 @@ <<5, -10>> :> -633) @@
  (  <<5, 10>> :> 645 @@ <<6, -10>> :> -628 @@ <<7, -40>> :> -2555 @@
     <<7, -20>> :> -1271 @@ <<7, -10>> :> -631 @@ <<7, 0>> :> 7 @@
     <<7, 10>> :> 647 @@ <<7, 40>> :> 2566 @@ <<7, 1400>> :> -2556 @@
     <<8, 10>> :> 641 @@ <<10, 10>> :> 644 @@ <<11, 10>> :> 646 @@
     <<627, 10>> :> 1269 @@ <<628, 10>> :> 1270 @@ <<629, 10>> :> 1271 @@
     <<630, 10>> :> 1276 @@ <<631, -10>> :> -9 @@ <<632, -10>> :> -6 @@
     <<632, 10>> :> 1272 @@ <<633, -10>> :> -8 @@ <<633, 10>> :> 1273 @@
     <<634, -10>> :> -5 @@ <<634, 10>> :> 1274 @@ <<635, -10>> :> -4 @@
     <<635, 10>> :> 1276 @@ <<636, -20>> :> -642 @@ <<636, -10>> :> -3) @@
  (  <<636, 0>> :> 637 @@ <<636, 10>> :> 1277 @@ <<636, 20>> :> 1918 @@
     <<636, 700>> :> -637 @@ <<637, -10>> :> -7 @@ <<637, 10>> :> 1278 @@
     <<638, -10>> :> -2 @@ <<638, 10>> :> 1278 @@ <<639, -40>> :> -1921 @@
     <<639, -20>> :> -641 @@ <<639, -10>> :> -1 @@ <<639, 0>> :> 639 @@
     <<639, 10>> :> 1279 @@ <<639, 20>> :> 1919 @@ <<639, 40>> :> 3200 @@
     <<639, 700>> :> -637 @@ <<639, 1400>> :> -1915 @@ <<640, -40>> :> -1919 @@
     <<640, 20>> :> 1919 @@ <<640, 700>> :> -637 @@ <<640, 1400>> :> -1915 @@
     <<641, -10>> :> 8 @@ <<642, -10>> :> 1 @@ <<643, -10>> :> 4 @@
     <<643, 10>> :> 1283 @@ <<644, -10>> :> 10 @@ <<644, 10>> :> 1284) @@
  (  <<645, -10>> :> 5 @@ <<645, 10>> :> 1285 @@ <<646, -10>> :> 11 @@
     <<646, 10>> :> 1286 @@ <<647, -10>> :> 7 @@ <<647, 10>> :> 1287 @@
     <<648, 10>> :> 1281 @@ <<649, 10>> :> 1282 @@ <<1267, 10>> :> 1912 @@
     <<1268, 10>> :> 1914 @@ <<1269, -10>> :> 627 @@ <<1269, 10>> :> 1911 @@
     <<1270, -10>> :> 628 @@ <<1271, -10>> :> 629 @@ <<1271, 10>> :> 1913 @@
     <<1272, -40>> :> -1284 @@ <<1272, -20>> :> -6 @@ <<1272, -10>> :> 632 @@
     <<1272, 0>> :> 1272 @@ <<1272, 10>> :> 1915 @@ <<1272, 40>> :> 3837 @@
     <<1272, 1400>> :> -1274 @@ <<1273, -10>> :> 633 @@ <<1273, 10>> :> 1915 @@
     <<1274, -10>> :> 634 @@ <<1274, 10>> :> 1916 @@ <<1275, -40>> :> -1283) @@
  (  <<1275, -20>> :> -4 @@ <<1275, -10>> :> 635 @@ <<1275, 0>> :> 1276 @@
     <<1275, 10>> :> 1917 @@ <<1275, 20>> :> 2558 @@ <<1275, 40>> :> 3838 @@
     <<1275, 700>> :> 0 @@ <<1275, 1400>> :> -1274 @@ <<1276, -10>> :> 630 @@
     <<1276, 10>> :> 1910 @@ <<1277, -10>> :> 637 @@ <<1278, -40>> :> -1282 @@
     <<1278, -20>> :> -2 @@ <<1278, -10>> :> 638 @@ <<1278, 0>> :> 1278 @@
     <<1278, 10>> :> 1918 @@ <<1278, 40>> :> 3839 @@ <<1278, 1400>> :> -1274 @@
     <<1279, -40>> :> -1281 @@ <<1279, -20>> :> -1 @@ <<1279, -10>> :> 639 @@
     <<1279, 0>> :> 1279 @@ <<1279, 10>> :> 1919 @@ <<1279, 20>> :> 2560 @@
     <<1279, 40>> :> 3839 @@ <<1279, 700>> :> 0 @@ <<1279, 1400>> :> -1274) @@
  (  <<1280, 10>> :> 1919 @@ <<1280, 40>> :> 3839 @@ <<1280, 1400>> :> -1274 @@
     <<1281, -10>> :> 648 @@ <<1282, -10>> :> 649 @@ <<1282, 10>> :> 1922 @@
     <<1283, -40>> :> -1275 @@ <<1283, -20>> :> 4 @@ <<1283, -10>> :> 643 @@
     <<1283, 0>> :> 1283 @@ <<1283, 10>> :> 1923 @@ <<1283, 40>> :> 3841 @@
     <<1283, 1400>> :> -1274 @@ <<1284, -10>> :> 644 @@ <<1284, 10>> :> 1924 @@
     <<1285, -40>> :> -1273 @@ <<1285, -20>> :> 5 @@ <<1285, -10>> :> 645 @@
     <<1285, 0>> :> 1285 @@ <<1285, 10>> :> 1925 @@ <<1285, 40>> :> 3842 @@
     <<1285, 1400>> :> -1274 @@ <<1286, -10>> :> 646 @@ <<1286, 10>> :> 1927 @@
     <<1287, -40>> :> -1271 @@ <<1287, -20>> :> 7 @@ <<1287, -10>> :> 647) @@
  (  <<1287, 0>> :> 1287 @@ <<1287, 10>> :> 1927 @@ <<1287, 40>> :> 3844 @@
     <<1287, 1400>> :> -1274 @@ <<1288, 10>> :> 1921 @@ <<1289, 10>> :> 1923 @@
     <<1290, 10>> :> 1926 @@ <<1911, -10>> :> 1269 @@ <<1911, 10>> :> 2553 @@
     <<1912, -10>> :> 1267 @@ <<1913, -10>> :> 1271 @@ <<1913, 10>> :> 2554 @@
     <<1914, -10>> :> 1268 @@ <<1914, 10>> :> 2555 @@ <<1915, -40>> :> -644 @@
     <<1915, -20>> :> 633 @@ <<1915, -10>> :> 1273 @@ <<1915, 0>> :> 1915 @@
     <<1915, 10>> :> 2557 @@ <<1915, 40>> :> 4477 @@ <<1915, 1400>> :> -637 @@
     <<1916, -40>> :> -643 @@ <<1916, -20>> :> 634 @@ <<1916, -10>> :> 1274 @@
     <<1916, 0>> :> 1916 @@ <<1916, 10>> :> 2557 @@ <<1916, 40>> :> 4478) @@
  (  <<1916, 1400>> :> -637 @@ <<1917, -10>> :> 1276 @@ <<1917, 10>> :> 2558 @@
     <<1918, -10>> :> 1278 @@ <<1918, 10>> :> 2559 @@ <<1919, -40>> :> -641 @@
     <<1919, -20>> :> 639 @@ <<1919, -10>> :> 1279 @@ <<1919, 0>> :> 1919 @@
     <<1919, 10>> :> 2560 @@ <<1919, 20>> :> 3200 @@ <<1919, 40>> :> 4480 @@
     <<1919, 700>> :> 636 @@ <<1919, 1400>> :> -637 @@ <<1921, -10>> :> 1288 @@
     <<1922, -10>> :> 1282 @@ <<1922, 10>> :> 2561 @@ <<1923, -10>> :> 1289 @@
     <<1923, 10>> :> 2563 @@ <<1924, -40>> :> -634 @@ <<1924, -20>> :> 644 @@
     <<1924, -10>> :> 1284 @@ <<1924, 0>> :> 1924 @@ <<1924, 10>> :> 2563 @@
     <<1924, 40>> :> 4482 @@ <<1924, 1400>> :> -637 @@ <<1925, -10>> :> 1285) @@
  (  <<1925, 10>> :> 2564 @@ <<1926, -10>> :> 1290 @@ <<1926, 10>> :> 2565 @@
     <<1927, -40>> :> -632 @@ <<1927, -20>> :> 646 @@ <<1927, -10>> :> 1286 @@
     <<1927, 0>> :> 1927 @@ <<1927, 10>> :> 2566 @@ <<1927, 40>> :> 4484 @@
     <<1927, 1400>> :> -637 @@ <<1928, 10>> :> 2567 @@ <<1929, 10>> :> 2568 @@
     <<2553, -20>> :> 1269 @@ <<2553, -10>> :> 1911 @@ <<2553, 0>> :> 2553 @@
     <<2553, 10>> :> 3194 @@ <<2553, 20>> :> 3834 @@ <<2553, 700>> :> 1270 @@
     <<2554, -20>> :> 1271 @@ <<2554, -10>> :> 1913 @@ <<2554, 0>> :> 2554 @@
     <<2554, 10>> :> 3195 @@ <<2554, 20>> :> 3835 @@ <<2554, 700>> :> 1270 @@
     <<2555, -10>> :> 1914 @@ <<2555, 10>> :> 3196 @@ <<2556, -40>> :> -6) @@
  (  <<2556, -20>> :> 1272 @@ <<2556, -10>> :> 1915 @@ <<2556, 0>> :> 2557 @@
     <<2556, 10>> :> 3197 @@ <<2556, 40>> :> 5117 @@ <<2556, 1400>> :> 0 @@
     <<2557, -40>> :> -5 @@ <<2557, -20>> :> 1274 @@ <<2557, -10>> :> 1916 @@
     <<2557, 0>> :> 2557 @@ <<2557, 10>> :> 3198 @@ <<2557, 40>> :> 5118 @@
     <<2557, 1400>> :> 0 @@ <<2558, -10>> :> 1917 @@ <<2559, -40>> :> -2 @@
     <<2559, -20>> :> 1278 @@ <<2559, -10>> :> 1918 @@ <<2559, 0>> :> 2559 @@
     <<2559, 10>> :> 3199 @@ <<2559, 40>> :> 5120 @@ <<2559, 1400>> :> 0 @@
     <<2560, -10>> :> 1919 @@ <<2560, 20>> :> 3839 @@ <<2560, 700>> :> 1275 @@
     <<2561, -40>> :> 2 @@ <<2561, -20>> :> 1281 @@ <<2561, -10>> :> 1922) @@
  (  <<2561, 0>> :> 2561 @@ <<2561, 10>> :> 3201 @@ <<2561, 40>> :> 5121 @@
     <<2561, 1400>> :> 0 @@ <<2562, -10>> :> 1923 @@ <<2562, 10>> :> 3202 @@
     <<2563, -10>> :> 1924 @@ <<2564, -40>> :> 5 @@ <<2564, -20>> :> 1285 @@
     <<2564, -10>> :> 1925 @@ <<2564, 0>> :> 2564 @@ <<2564, 10>> :> 3203 @@
     <<2564, 20>> :> 3842 @@ <<2564, 40>> :> 5122 @@ <<2564, 700>> :> 1275 @@
     <<2564, 1400>> :> 0 @@ <<2565, -10>> :> 1926 @@ <<2565, 10>> :> 3204 @@
     <<2566, -40>> :> 7 @@ <<2566, -20>> :> 1287 @@ <<2566, -10>> :> 1927 @@
     <<2566, 0>> :> 2566 @@ <<2566, 10>> :> 3205 @@ <<2566, 20>> :> 3844 @@
     <<2566, 40>> :> 5123 @@ <<2566, 700>> :> 1275 @@ <<2566, 1400>> :> 0) @@
  (  <<2567, -10>> :> 1928 @@ <<2568, -10>> :> 1929 @@ <<3192, 10>> :> 3834 @@
     <<3193, 10>> :> 3838 @@ <<3194, -10>> :> 2553 @@ <<3195, -20>> :> 1913 @@
     <<3195, -10>> :> 2554 @@ <<3195, 0>> :> 3195 @@ <<3195, 10>> :> 3835 @@
     <<3195, 20>> :> 4476 @@ <<3195, 700>> :> 1912 @@ <<3196, -40>> :> 631 @@
     <<3196, -20>> :> 1914 @@ <<3196, -10>> :> 2555 @@ <<3196, 0>> :> 3196 @@
     <<3196, 10>> :> 3836 @@ <<3196, 40>> :> 5757 @@ <<3196, 1400>> :> 636 @@
     <<3197, -40>> :> 632 @@ <<3197, -20>> :> 1915 @@ <<3197, -10>> :> 2557 @@
     <<3197, 0>> :> 3197 @@ <<3197, 10>> :> 3837 @@ <<3197, 40>> :> 5758 @@
     <<3197, 1400>> :> 636 @@ <<3198, -10>> :> 2557 @@ <<3199, -40>> :> 638) @@
  (  <<3199, -20>> :> 1918 @@ <<3199, -10>> :> 2559 @@ <<3199, 0>> :> 3199 @@
     <<3199, 10>> :> 3839 @@ <<3199, 40>> :> 5760 @@ <<3199, 1400>> :> 636 @@
     <<3200, -20>> :> 1919 @@ <<3200, 10>> :> 3839 @@ <<3200, 700>> :> 1916 @@
     <<3200, 1400>> :> 636 @@ <<3201, -10>> :> 2561 @@ <<3202, -10>> :> 2562 @@
     <<3202, 10>> :> 3841 @@ <<3203, -40>> :> 645 @@ <<3203, -20>> :> 1925 @@
     <<3203, -10>> :> 2564 @@ <<3203, 0>> :> 3203 @@ <<3203, 10>> :> 3842 @@
     <<3203, 20>> :> 4482 @@ <<3203, 40>> :> 5762 @@ <<3203, 700>> :> 1916 @@
     <<3203, 1400>> :> 636 @@ <<3204, -20>> :> 1926 @@ <<3204, -10>> :> 2565 @@
     <<3204, 0>> :> 3204 @@ <<3204, 10>> :> 3843 @@ <<3204, 20>> :> 4483) @@
  (  <<3204, 700>> :> 1916 @@ <<3205, -40>> :> 647 @@ <<3205, -20>> :> 1927 @@
     <<3205, -10>> :> 2566 @@ <<3205, 0>> :> 3205 @@ <<3205, 10>> :> 3844 @@
     <<3205, 40>> :> 5763 @@ <<3205, 1400>> :> 636 @@ <<3206, 10>> :> 3843 @@
     <<3207, 10>> :> 3845 @@ <<3208, 10>> :> 3846 @@ <<3833, 10>> :> 4478 @@
     <<3834, -10>> :> 3192 @@ <<3835, -20>> :> 2554 @@ <<3835, -10>> :> 3195 @@
     <<3835, 0>> :> 3835 @@ <<3835, 10>> :> 4476 @@ <<3835, 20>> :> 5116 @@
     <<3835, 700>> :> 2553 @@ <<3836, -10>> :> 3196 @@ <<3837, -10>> :> 3197 @@
     <<3837, 10>> :> 4477 @@ <<3838, -10>> :> 3193 @@ <<3838, 10>> :> 4479 @@
     <<3839, -40>> :> 1278 @@ <<3839, -20>> :> 2559 @@ <<3839, -10>> :> 3199) @@
  (  <<3839, 0>> :> 3839 @@ <<3839, 10>> :> 4480 @@ <<3839, 20>> :> 5120 @@
     <<3839, 40>> :> 6400 @@ <<3839, 700>> :> 2566 @@ <<3839, 1400>> :> 1275 @@
     <<3841, -40>> :> 1283 @@ <<3841, -20>> :> 2562 @@ <<3841, -10>> :> 3202 @@
     <<3841, 0>> :> 3841 @@ <<3841, 10>> :> 4482 @@ <<3841, 20>> :> 5122 @@
     <<3841, 40>> :> 6402 @@ <<3841, 700>> :> 2566 @@ <<3841, 1400>> :> 1275 @@
     <<3842, -40>> :> 1285 @@ <<3842, -20>> :> 2564 @@ <<3842, -10>> :> 3203 @@
     <<3842, 0>> :> 3842 @@ <<3842, 10>> :> 4482 @@ <<3842, 20>> :> 5122 @@
     <<3842, 40>> :> 6402 @@ <<3842, 700>> :> 2566 @@ <<3842, 1400>> :> 1275 @@
     <<3843, -10>> :> 3206 @@ <<3843, 10>> :> 4484 @@ <<3844, -10>> :> 3205) @@
  (  <<3844, 10>> :> 4484 @@ <<3845, -10>> :> 3207 @@ <<3845, 10>> :> 4485 @@
     <<3846, -10>> :> 3208 @@ <<3846, 10>> :> 4487 @@ <<3847, 10>> :> 4486 @@
     <<3848, 10>> :> 4487 @@ <<4476, -20>> :> 3195 @@ <<4476, -10>> :> 3835 @@
     <<4476, 0>> :> 4476 @@ <<4476, 10>> :> 5116 @@ <<4476, 20>> :> 5756 @@
     <<4476, 700>> :> 3196 @@ <<4477, -10>> :> 3837 @@ <<4477, 10>> :> 5117 @@
     <<4478, -10>> :> 3833 @@ <<4478, 10>> :> 5118 @@ <<4479, -10>> :> 3838 @@
     <<4479, 10>> :> 5119 @@ <<4480, -40>> :> 1919 @@ <<4480, -10>> :> 3839 @@
     <<4480, 700>> :> 3204 @@ <<4480, 1400>> :> 1916 @@ <<4481, -40>> :> 1922 @@
     <<4481, -20>> :> 3201 @@ <<4481, -10>> :> 3841 @@ <<4481, 0>> :> 4481) @@
  (  <<4481, 10>> :> 5121 @@ <<4481, 20>> :> 5761 @@ <<4481, 40>> :> 7041 @@
     <<4481, 700>> :> 3204 @@ <<4481, 1400>> :> 1916 @@ <<4482, -40>> :> 1924 @@
     <<4482, -20>> :> 3203 @@ <<4482, -10>> :> 3842 @@ <<4482, 0>> :> 4482 @@
     <<4482, 10>> :> 5122 @@ <<4482, 20>> :> 5762 @@ <<4482, 40>> :> 7042 @@
     <<4482, 700>> :> 3204 @@ <<4482, 1400>> :> 1916 @@ <<4483, -10>> :> 3843 @@
     <<4484, -10>> :> 3844 @@ <<4484, 10>> :> 5123 @@ <<4485, -10>> :> 3845 @@
     <<4485, 10>> :> 5124 @@ <<4486, -10>> :> 3847 @@ <<4487, -10>> :> 3846 @@
     <<4487, 10>> :> 5125 @@ <<4488, -10>> :> 3848 @@ <<5115, 10>> :> 5757 @@
     <<5116, -20>> :> 3835 @@ <<5116, -10>> :> 4476 @@ <<5116, 0>> :> 5116) @@
  (  <<5116, 10>> :> 5756 @@ <<5116, 20>> :> 6398 @@ <<5116, 700>> :> 3835 @@
     <<5117, -40>> :> 2557 @@ <<5117, -20>> :> 3837 @@ <<5117, -10>> :> 4477 @@
     <<5117, 0>> :> 5117 @@ <<5117, 10>> :> 5758 @@ <<5117, 40>> :> 7678 @@
     <<5117, 1400>> :> 2556 @@ <<5118, -10>> :> 4478 @@ <<5119, -20>> :> 3838 @@
     <<5119, -10>> :> 4479 @@ <<5119, 0>> :> 5119 @@ <<5119, 10>> :> 5759 @@
     <<5119, 20>> :> 6399 @@ <<5119, 700>> :> 3842 @@ <<5120, -20>> :> 3839 @@
     <<5120, 40>> :> 7679 @@ <<5120, 700>> :> 3842 @@ <<5120, 1400>> :> 2556 @@
     <<5121, -40>> :> 2561 @@ <<5121, -20>> :> 3841 @@ <<5121, -10>> :> 4481 @@
     <<5121, 0>> :> 5121 @@ <<5121, 10>> :> 5761 @@ <<5121, 20>> :> 6401) @@
  (  <<5121, 40>> :> 7681 @@ <<5121, 700>> :> 3842 @@ <<5121, 1400>> :> 2556 @@
     <<5122, -40>> :> 2563 @@ <<5122, -20>> :> 3842 @@ <<5122, -10>> :> 4482 @@
     <<5122, 0>> :> 5122 @@ <<5122, 10>> :> 5762 @@ <<5122, 20>> :> 6402 @@
     <<5122, 40>> :> 7682 @@ <<5122, 700>> :> 3842 @@ <<5122, 1400>> :> 2556 @@
     <<5123, -40>> :> 2566 @@ <<5123, -20>> :> 3844 @@ <<5123, -10>> :> 4484 @@
     <<5123, 0>> :> 5123 @@ <<5123, 10>> :> 5763 @@ <<5123, 40>> :> 7683 @@
     <<5123, 1400>> :> 2556 @@ <<5124, -40>> :> 2567 @@ <<5124, -20>> :> 3845 @@
     <<5124, -10>> :> 4485 @@ <<5124, 0>> :> 5124 @@ <<5124, 10>> :> 5764 @@
     <<5124, 40>> :> 7683 @@ <<5124, 1400>> :> 2556 @@ <<5125, -40>> :> 2568) @@
  (  <<5125, -20>> :> 3846 @@ <<5125, -10>> :> 4487 @@ <<5125, 0>> :> 5125 @@
     <<5125, 10>> :> 5767 @@ <<5125, 40>> :> 7685 @@ <<5125, 1400>> :> 2556 @@
     <<5126, 10>> :> 5765 @@ <<5127, 10>> :> 5766 @@ <<5756, -10>> :> 5116 @@
     <<5756, 10>> :> 6398 @@ <<5757, -10>> :> 5115 @@ <<5758, -10>> :> 5117 @@
     <<5759, -20>> :> 4479 @@ <<5759, -10>> :> 5119 @@ <<5759, 0>> :> 5759 @@
     <<5759, 10>> :> 6399 @@ <<5759, 20>> :> 7039 @@ <<5759, 700>> :> 4482 @@
     <<5760, 700>> :> 4482 @@ <<5760, 1400>> :> 3196 @@ <<5761, -40>> :> 3201 @@
     <<5761, -20>> :> 4481 @@ <<5761, -10>> :> 5121 @@ <<5761, 0>> :> 5761 @@
     <<5761, 10>> :> 6401 @@ <<5761, 20>> :> 7041 @@ <<5761, 40>> :> 8320) @@
  (  <<5761, 700>> :> 4482 @@ <<5761, 1400>> :> 3196 @@ <<5762, -20>> :> 4482 @@
     <<5762, -10>> :> 5122 @@ <<5762, 0>> :> 5762 @@ <<5762, 10>> :> 6402 @@
     <<5762, 20>> :> 7042 @@ <<5762, 700>> :> 4482 @@ <<5763, -10>> :> 5123 @@
     <<5764, -10>> :> 5124 @@ <<5764, 10>> :> 6403 @@ <<5765, -10>> :> 5126 @@
     <<5765, 10>> :> 6404 @@ <<5766, -10>> :> 5127 @@ <<5767, -10>> :> 5125 @@
     <<6398, -10>> :> 5756 @@ <<6399, -20>> :> 5119 @@ <<6399, -10>> :> 5759 @@
     <<6399, 0>> :> 6399 @@ <<6399, 10>> :> 7039 @@ <<6399, 20>> :> 7679 @@
     <<6399, 700>> :> 5121 @@ <<6400, -40>> :> 3839 @@ <<6400, 20>> :> 7679 @@
     <<6400, 700>> :> 5121 @@ <<6400, 1400>> :> 3835 @@ <<6401, -20>> :> 5121) @@
  (  <<6401, -10>> :> 5761 @@ <<6401, 0>> :> 6401 @@ <<6401, 10>> :> 7041 @@
     <<6401, 20>> :> 7681 @@ <<6401, 700>> :> 5121 @@ <<6402, -40>> :> 3842 @@
     <<6402, -20>> :> 5122 @@ <<6402, -10>> :> 5762 @@ <<6402, 0>> :> 6402 @@
     <<6402, 10>> :> 7042 @@ <<6402, 40>> :> 8961 @@ <<6402, 1400>> :> 3835 @@
     <<6403, -40>> :> 3845 @@ <<6403, -20>> :> 5124 @@ <<6403, -10>> :> 5764 @@
     <<6403, 0>> :> 6403 @@ <<6403, 10>> :> 7044 @@ <<6403, 40>> :> 8962 @@
     <<6403, 1400>> :> 3835 @@ <<6404, -10>> :> 5765 @@ <<6404, 10>> :> 7044 @@
     <<7038, 10>> :> 7678 @@ <<7039, -20>> :> 5759 @@ <<7039, -10>> :> 6399 @@
     <<7039, 0>> :> 7039 @@ <<7039, 10>> :> 7679 @@ <<7039, 20>> :> 8320) @@
  (  <<7039, 700>> :> 5760 @@ <<7040, 10>> :> 7679 @@ <<7041, -10>> :> 6401 @@
     <<7041, 10>> :> 7681 @@ <<7042, -40>> :> 4482 @@ <<7042, -20>> :> 5762 @@
     <<7042, -10>> :> 6402 @@ <<7042, 0>> :> 7042 @@ <<7042, 10>> :> 7682 @@
     <<7042, 40>> :> 9601 @@ <<7042, 1400>> :> 4488 @@ <<7043, -10>> :> 6403 @@
     <<7044, -40>> :> 4486 @@ <<7044, -20>> :> 5765 @@ <<7044, -10>> :> 6404 @@
     <<7044, 0>> :> 7044 @@ <<7044, 10>> :> 7684 @@ <<7044, 40>> :> 9603 @@
     <<7044, 1400>> :> 4488 @@ <<7045, 10>> :> 7682 @@ <<7046, 10>> :> 7684 @@
     <<7047, 10>> :> 7685 @@ <<7678, -10>> :> 7038 @@ <<7679, -20>> :> 6399 @@
     <<7679, -10>> :> 7039 @@ <<7679, 0>> :> 7679 @@ <<7679, 10>> :> 8320) @@
  (  <<7679, 20>> :> 8960 @@ <<7679, 700>> :> 6399 @@ <<7681, -40>> :> 5121 @@
     <<7681, -20>> :> 6401 @@ <<7681, -10>> :> 7041 @@ <<7681, 0>> :> 7681 @@
     <<7681, 10>> :> 8320 @@ <<7681, 40>> :> 10240 @@ <<7681, 1400>> :> 5125 @@
     <<7682, -10>> :> 7045 @@ <<7683, -40>> :> 5124 @@ <<7683, -20>> :> 6403 @@
     <<7683, -10>> :> 7044 @@ <<7683, 0>> :> 7683 @@ <<7683, 10>> :> 8321 @@
     <<7683, 40>> :> 10241 @@ <<7683, 1400>> :> 5125 @@ <<7684, -10>> :> 7046 @@
     <<7685, -10>> :> 7047 @@ <<8320, -10>> :> 7679 @@ <<8320, 1400>> :> 5766 @@
     <<8321, -40>> :> 5763 @@ <<8321, -20>> :> 7043 @@ <<8321, -10>> :> 7683 @@
     <<8321, 0>> :> 8321 @@ <<8321, 10>> :> 8962 @@ <<8321, 40>> :> 10881) @@
  (  <<8321, 1400>> :> 5766 @@ <<8322, 10>> :> 8961 @@ <<8961, -10>> :> 8322 @@
     <<8961, 10>> :> 9601 @@ <<8962, -10>> :> 8321 @@ <<8962, 10>> :> 9602 @@
     <<8963, 10>> :> 9603 @@ <<9601, -10>> :> 8961 @@ <<9602, -10>> :> 8962 @@
     <<9602, 10>> :> 10241 @@ <<9603, -10>> :> 8963 @@ <<10241, -40>> :> 7683 @@
     <<10241, -20>> :> 8962 @@ <<10241, -10>> :> 9602 @@ <<10241, 0>> :> 10241 @@
     <<10241, 10>> :> 10881 @@ <<10241, 40>> :> 12801 @@ <<10241, 1400>> :> 7683 @@
     <<10881, -10>> :> 10241 @@ <<12161, 10>> :> 12801 @@ <<12801, -10>> :> 12161 @@
     <<14720, 10>> :> 15359 @@ <<14721, 10>> :> 15361 @@ <<14722, 10>> :> 15362 @@
     <<15359, -10>> :> 14720 @@ <<15361, -10>> :> 14721 @@ <<15362, -10>> :> 14722) @@
  (  <<16001, 10>> :> 16640 @@ <<16002, 10>> :> 16642 @@ <<16003, 10>> :> 16642 @@
     <<16640, -10>> :> 16001 @@ <<16641, -10>> :> 16002 @@ <<16641, 10>> :> 17281 @@
     <<16642, -10>> :> 16003 @@ <<16642, 10>> :> 17282 @@ <<17281, -10>> :> 16641 @@
     <<17281, 10>> :> 17921 @@ <<17282, -10>> :> 16642 @@ <<17282, 10>> :> 17922 @@
     <<17920, -40>> :> 15359 @@ <<17920, 1400>> :> 15362 @@ <<17921, -40>> :> 15361 @@
     <<17921, -20>> :> 16641 @@ <<17921, -10>> :> 17281 @@ <<17921, 0>> :> 17921 @@
     <<17921, 10>> :> 18561 @@ <<17921, 40>> :> 20481 @@ <<17921, 1400>> :> 15362 @@
     <<17922, -40>> :> 15362 @@ <<17922, -20>> :> 16642 @@ <<17922, -10>> :> 17282 @@
     <<17922, 0>> :> 17922 @@ <<17922, 10>> :> 18562 @@ <<17922, 40>> :> 20482) @@
  (  <<17922, 1400>> :> 15362 @@ <<18561, -10>> :> 17921 @@ <<18561, 10>> :> 19201 @@
     <<18562, -10>> :> 17922 @@ <<19200, 1400>> :> 16642 @@ <<19201, -40>> :> 16641 @@
     <<19201, -20>> :> 17921 @@ <<19201, -10>> :> 18561 @@ <<19201, 0>> :> 19201 @@
     <<19201, 10>> :> 19841 @@ <<19201, 40>> :> 21761 @@ <<19201, 1400>> :> 16642 @@
     <<19840, 1400>> :> 17282 @@ <<19841, -40>> :> 17281 @@ <<19841, -20>> :> 18561 @@
     <<19841, -10>> :> 19201 @@ <<19841, 0>> :> 19841 @@ <<19841, 10>> :> 20481 @@
     <<19841, 40>> :> 22401 @@ <<19841, 1400>> :> 17282 @@ <<19842, 10>> :> 20482 @@
     <<20480, 1400>> :> 17922 @@ <<20481, -40>> :> 17921 @@ <<20481, -20>> :> 19201 @@
     <<20481, -10>> :> 19841 @@ <<20481, 0>> :> 20481 @@ <<20481, 10>> :> 21121) @@
  (  <<20481, 40>> :> -23039 @@ <<20481, 1400>> :> 17922 @@ <<20482, -10>> :> 19842 @@
     <<21119, 10>> :> 21759 @@ <<21120, 1400>> :> 18561 @@ <<21121, -40>> :> 18561 @@
     <<21121, -20>> :> 19841 @@ <<21121, -10>> :> 20481 @@ <<21121, 0>> :> 21121 @@
     <<21121, 10>> :> 21761 @@ <<21121, 40>> :> -22399 @@ <<21121, 1400>> :> 18561 @@
     <<21759, -10>> :> 21119 @@ <<21760, 40>> :> -21759 @@ <<21760, 1400>> :> 19201 @@
     <<21761, -10>> :> 21121 @@ <<21761, 10>> :> 22401 @@ <<22400, 1400>> :> 19841 @@
     <<22401, -10>> :> 21761 @@ <<22401, 10>> :> -23039 @@ <<23040, 1400>> :> 20481 @@
     <<51200, -40>> :> 2566 @@ <<51200, -20>> :> 3842 @@ <<51200, -10>> :> 4482 @@
     <<51200, 0>> :> 5121 @@ <<51200, 20>> :> 6399 @@ <<51200, 40>> :> 7683) @@
  (  <<51200, 700>> :> 3835 @@ <<51200, 1400>> :> 2556)

\* the yaw a handler leaves: this.state.yaw += d, then
\* this.state.yaw = radToDeg(normalizeAngle(degToRad(this.state.yaw)))
NormalizedSum(y, d) ==
  IF <<y, d>> \in DOMAIN NormalizedSumTable
  THEN NormalizedSumTable[<<y, d>>]
  ELSE normalizeAngle(y + d * YawScale)

\* projection.ts getProjectionStrategy: unknown types fall back to STEREOGRAPHIC
getProjectionStrategy(type) ==
  IF type \in ProjectionTypes THEN type ELSE STEREOGRAPHIC

\* Math.sqrt(nx * nx + ny * ny), nx and ny in hundredths of the half
\* viewport, on the points of the model (whose distances are whole)
Hypot(nx, ny) == CHOOSE r \in 0..200 : r * r = nx * nx + ny * ny

\* Math.cos(r * Math.PI / 4) in hundredths, at the centre and at the edge
CosQuarterPi(r) == CASE r = 0 -> 100 [] r = 100 -> 71

\* the falloff factor of each strategy's getDragVelocity, in hundredths:
\* cos(r * PI / 4), max(0.5, 1 - 0.15 r), max(0.6, 1 - 0.2 r), none
Falloff(strategy, r) ==
  CASE strategy = STEREOGRAPHIC -> CosQuarterPi(r)
    [] strategy = EQUIDISTANT -> Max2(50, 100 - (r * 15) \div 100)
    [] strategy = EQUISOLID -> Max2(60, 100 - (r * 20) \div 100)
    [] strategy = RECTILINEAR -> 100

\* strategy.getDragVelocity(nx, ny, baseSensitivity): baseSensitivity * falloff
\* (whole half degrees per pixel; exact wherever the falloff is 1)
getDragVelocity(strategy, nx, ny, baseSensitivity) ==
  LET falloff == Falloff(strategy, Hypot(nx, ny)) IN
    [x |-> (baseSensitivity * falloff) \div 100,
     y |-> (baseSensitivity * falloff) \div 100]

\* the point of the right edge of the viewport
DragPoint_Edge == [nx |-> 100, ny |-> 0]

\* the point handleMouseMove hands to getDragVelocity: the viewport centre,
\* strategy.getDragVelocity(0, 0, baseSensitivity)
DragPoint == [nx |-> 0, ny |-> 0]

\* ------------------------------------------------------ input domains
\* image sources: the decoded size behind each src
Srcs == {"A", "B", "S", "L", "M"}
ImageWidth(src) ==
  CASE src = "A" -> 512
    [] src = "B" -> 8192
    [] src = "S" -> 511
    [] src = "L" -> 8193
    [] src = "M" -> 8193
ImageHeight(src) ==
  CASE src = "A" -> 256
    [] src = "B" -> 4096
    [] src = "S" -> 300
    [] src = "L" -> 4096
    [] src = "M" -> 255

\* pointer and touch positions
Positions == {[x |-> 0, y |-> 0], [x |-> 20, y |-> 10]}
\* pointer-move deltas (movementX, movementY), in pixels
Deltas == {[dx |-> 10, dy |-> -4], [dx |-> -700, dy |-> 400]}
Keys == {"ArrowLeft", "ArrowRight", "ArrowUp", "ArrowDown", "+", "-"}
WheelDeltas == {-100, 0, 100}
\* setState partials: None stands for a field that is not provided
Partials ==
  { [yaw |-> None, pitch |-> None, zoom |-> None, isDragging |-> None],
    [yaw |-> Some(Yaw(400)), pitch |-> None, zoom |-> None, isDragging |-> None],
    [yaw |-> None, pitch |-> Some(Deg(95)), zoom |-> None, isDragging |-> None],
    [yaw |-> None, pitch |-> None, zoom |-> Some(2), isDragging |-> None],
    [yaw |-> None, pitch |-> None, zoom |-> Some(100), isDragging |-> None],
    [yaw |-> None, pitch |-> None, zoom |-> None, isDragging |-> Some(TRUE)],
    [yaw |-> Some(Yaw(10)), pitch |-> Some(Deg(-45)), zoom |-> Some(20),
     isDragging |-> None] }
CanvasSizes == {[width |-> 99, height |-> 500], [width |-> 100, height |-> 100],
                [width |-> 500, height |-> 99]}
LabelSets == {"none", "two"}

\* RendererConfig objects handed to the constructor (None: option absent)
NoOptions ==
  [initialYaw |-> None, initialPitch |-> None, initialZoom |-> None,
   minZoom |-> None, maxZoom |-> None, fov |-> None, enableKeyboard |-> None,
   sensitivity |-> None, projectionType |-> None]
Options ==
  { NoOptions,
    [NoOptions EXCEPT !.initialYaw = Some(Yaw(180)),
                      !.initialPitch = Some(Deg(120)),
                      !.initialZoom = Some(50), !.sensitivity = Some(2),
                      !.projectionType = Some(RECTILINEAR)],
    [NoOptions EXCEPT !.initialYaw = Some(Yaw(400)),
                      !.initialPitch = Some(Deg(-95)),
                      !.minZoom = Some(50), !.enableKeyboard = Some(FALSE),
                      !.projectionType = Some("bogus")] }

\* ---------------------------------------------------------- variables
VARIABLES
  config,            \* this.config (Required<RendererConfig>)
  projectionType,    \* this.projectionType
  yaw, pitch, zoom, isDragging,   \* this.state (ViewState)
  dragStart,         \* this.dragStart
  image,             \* this.image: src of the active image
  sourceCanvas,      \* this.sourceCanvas: src whose size the canvas has
  sourceData,        \* this.sourceData: src whose pixels are cached
  isDirty,           \* this.isDirty
  animationFrameId,  \* this.animationFrameId (0: null)
  rafQueue,          \* callbacks registered with requestAnimationFrame
  canvas,            \* this.canvas: its size, None once destroy dropped it
  labels,            \* this.labelRenderer: its label list, NULL once destroyed
  loading,           \* srcs of the loadImage calls that have not completed
  budget,            \* calls the environment may still make
  last,              \* what the last operation did (observer callbacks, result)
  probe              \* one evaluation of a function of the render pass

camVars == <<yaw, pitch, zoom, isDragging>>
dragVars == <<dragStart>>
imgVars == <<image, sourceCanvas, sourceData>>
schedVars == <<isDirty, animationFrameId, rafQueue>>
envVars == <<config, projectionType, probe>>
vars == <<config, projectionType, yaw, pitch, zoom, isDragging, dragStart,
          image, sourceCanvas, sourceData, isDirty, animationFrameId,
          rafQueue, canvas, labels, loading, budget, last, probe>>


\* record of one operation: the callbacks it invoked and how it ended
Did(op) ==
  [op |-> op, arg |-> None,
   result |-> "ok",        \* "ok", or the error the operation raised
   promise |-> "none",     \* of a completed load: "resolved", "rejected",
                           \* or "pending" when it was left unsettled
   onError |-> <<>>,       \* the errors handed to callbacks.onError
   onLoad |-> 0,           \* the number of callbacks.onLoad invocations
   onViewChange |-> <<>>,  \* the states handed to callbacks.onViewChange
   frame |-> None,         \* the frame a render pass rasterized, if any
   coalesced |-> FALSE,    \* scheduleRender found a render already pending
   order |-> <<>>]         \* of a completed load: what img.onload did, in order

ViewState == [yaw |-> yaw, pitch |-> pitch, zoom |-> zoom, isDragging |-> isDragging]


\* ------------------------------------------------------- construction
Opt(v, d) == IF v = None THEN d ELSE v[1]

\* constructor: "Apply default config"
ApplyDefaults(o) ==
  [initialYaw |-> Opt(o.initialYaw, 0),
   initialPitch |-> Opt(o.initialPitch, 0),
   initialZoom |-> Opt(o.initialZoom, 10),
   minZoom |-> Opt(o.minZoom, DEFAULT_MIN_ZOOM),
   maxZoom |-> Opt(o.maxZoom, DEFAULT_MAX_ZOOM),
   fov |-> Opt(o.fov, DEFAULT_FOV),
   enableKeyboard |-> Opt(o.enableKeyboard, TRUE),
   sensitivity |-> Opt(o.sensitivity, 1),
   projectionType |-> Opt(o.projectionType, EQUIDISTANT)]

\* what the environment may still do in a run: camera-changing calls,
\* loadImage calls, and setLabels / resize / destroy calls.  A run exercises
\* the camera, or the image pipeline, or the lifecycle of the renderer.
Budgets ==
  { [cam |-> MaxMutations, load |-> 0, life |-> 0],
    [cam |-> 1, load |-> MaxLoads, life |-> 0],
    [cam |-> 1, load |-> 1, life |-> MaxLifecycle] }

\* constructor: the state after new FishEyePanoramaRenderer(canvas, o, callbacks)
Construct(o) ==
  /\ config = ApplyDefaults(o)
  /\ projectionType = config.projectionType
  /\ yaw = config.initialYaw
  /\ pitch = clamp(config.initialPitch, MIN_PITCH, MAX_PITCH)
  /\ zoom = clamp(config.initialZoom, config.minZoom, config.maxZoom)
  /\ isDragging = FALSE
  /\ dragStart = None
  /\ image = NULL
  /\ sourceCanvas = NULL
  /\ sourceData = NULL
  /\ isDirty = TRUE
  /\ animationFrameId = 0
  /\ rafQueue = {}
  /\ canvas = Some([width |-> 300, height |-> 150])
  /\ labels = "none"
  /\ loading = {}
  /\ last = Did("construct")

\* no function of the render pass is under evaluation
NoProbe == [fn |-> "none", in |-> <<>>, out |-> None]

Init ==
  \E o \in Options, b \in Budgets :
    /\ (b.cam < MaxMutations => o = NoOptions)
    /\ budget = b
    /\ Construct(o)
    /\ probe = NoProbe

\* ------------------------------------------------------- render loop
\* render() without the test of the dirty flag
render_IgnoreDirty(img, dirty) ==
  IF img = NULL \/ canvas = None
  THEN [threw |-> FALSE, frame |-> None, sourceCanvas |-> sourceCanvas,
        sourceData |-> sourceData, isDirty |-> dirty]
  ELSE LET sc == IF sourceCanvas = NULL THEN img ELSE sourceCanvas
           sd == IF sourceCanvas = NULL THEN img ELSE sourceData
       IN [threw |-> FALSE,
           frame |-> Some([image |-> img, source |-> sd, yaw |-> yaw,
                           pitch |-> pitch, zoom |-> zoom,
                           width |-> canvas[1].width,
                           height |-> canvas[1].height, labels |-> labels]),
           sourceCanvas |-> sc, sourceData |-> sd, isDirty |-> FALSE]

\* render(): the values it leaves, for the image and dirty flag it is
\* called with (loadImage sets both just before calling it)
render(img, dirty) ==
  IF ~dirty \/ img = NULL
  THEN [threw |-> FALSE, frame |-> None, sourceCanvas |-> sourceCanvas,
        sourceData |-> sourceData, isDirty |-> dirty]
  ELSE IF canvas = None
  THEN \* const { width, height } = this.canvas: TypeError on null
       [threw |-> TRUE, frame |-> None, sourceCanvas |-> sourceCanvas,
        sourceData |-> sourceData, isDirty |-> dirty]
  ELSE LET sc == IF sourceCanvas = NULL THEN img ELSE sourceCanvas
           sd == IF sourceCanvas = NULL THEN img ELSE sourceData
       IN [threw |-> FALSE,
           frame |-> Some([image |-> img, source |-> sd, yaw |-> yaw,
                           pitch |-> pitch, zoom |-> zoom,
                           width |-> canvas[1].width,
                           height |-> canvas[1].height, labels |-> labels]),
           sourceCanvas |-> sc, sourceData |-> sd, isDirty |-> FALSE]

\* scheduleRender() without the test of animationFrameId
scheduleRender_NoGuard ==
  IF Cardinality(rafQueue) >= MaxFrames
  THEN UNCHANGED <<animationFrameId, rafQueue>>
  ELSE \E id \in 1..MaxFrames :
         /\ id \notin rafQueue
         /\ \A j \in 1..(id - 1) : j \in rafQueue
         /\ animationFrameId' = id
         /\ rafQueue' = rafQueue \cup {id}

\* scheduleRender(): at most one callback is requested
scheduleRender ==
  IF animationFrameId # 0
  THEN UNCHANGED <<animationFrameId, rafQueue>>
  ELSE \E id \in 1..MaxFrames :
         /\ id \notin rafQueue
         /\ \A j \in 1..(id - 1) : j \in rafQueue
         /\ animationFrameId' = id
         /\ rafQueue' = rafQueue \cup {id}

\* markDirty() without its call of scheduleRender
markDirty_NoSchedule ==
  /\ isDirty' = TRUE
  /\ UNCHANGED <<animationFrameId, rafQueue>>

\* markDirty()
markDirty ==
  /\ isDirty' = TRUE
  /\ scheduleRender

\* the callback notifying only of a pass that rasterized a frame
AnimationFrame_NotifyOnFrame(id) ==
  /\ id \in rafQueue
  /\ rafQueue' = rafQueue \ {id}
  /\ LET r == render(image, isDirty) IN
       /\ sourceCanvas' = r.sourceCanvas
       /\ sourceData' = r.sourceData
       /\ isDirty' = r.isDirty
       /\ IF r.threw
          THEN /\ UNCHANGED animationFrameId
               /\ last' = [Did("animation-frame") EXCEPT !.result = "TypeError"]
          ELSE /\ animationFrameId' = 0
               /\ last' = [Did("animation-frame") EXCEPT
                             !.frame = r.frame,
                             !.onViewChange = IF r.frame = None THEN <<>>
                                              ELSE <<ViewState>>]
  /\ UNCHANGED <<envVars, camVars, dragVars, image, canvas, labels, loading, budget>>

\* the callback without its onViewChange invocation
AnimationFrame_NoCallback(id) ==
  /\ id \in rafQueue
  /\ rafQueue' = rafQueue \ {id}
  /\ LET r == render(image, isDirty) IN
       /\ sourceCanvas' = r.sourceCanvas
       /\ sourceData' = r.sourceData
       /\ isDirty' = r.isDirty
       /\ IF r.threw
          THEN /\ UNCHANGED animationFrameId
               /\ last' = [Did("animation-frame") EXCEPT !.result = "TypeError"]
          ELSE /\ animationFrameId' = 0
               /\ last' = [Did("animation-frame") EXCEPT !.frame = r.frame]
  /\ UNCHANGED <<envVars, camVars, dragVars, image, canvas, labels, loading, budget>>

\* the callback scheduleRender hands to requestAnimationFrame, fired by the
\* display refresh
AnimationFrame(id) ==
  /\ id \in rafQueue
  /\ rafQueue' = rafQueue \ {id}
  /\ LET r == render(image, isDirty) IN
       /\ sourceCanvas' = r.sourceCanvas
       /\ sourceData' = r.sourceData
       /\ isDirty' = r.isDirty
       /\ IF r.threw
          THEN /\ UNCHANGED animationFrameId
               /\ last' = [Did("animation-frame") EXCEPT !.result = "TypeError"]
          ELSE /\ animationFrameId' = 0
               /\ last' = [Did("animation-frame") EXCEPT
                             !.frame = r.frame,
                             !.onViewChange = <<ViewState>>]
  /\ UNCHANGED <<envVars, camVars, dragVars, image, canvas, labels, loading, budget>>


\* ------------------------------------------------------ input handlers
\* spending one camera-changing call of the environment's budget
Spend ==
  /\ budget.cam > 0
  /\ budget' = [budget EXCEPT !.cam = @ - 1]

\* spending one setLabels / resize / destroy call
SpendLife ==
  /\ budget.life > 0
  /\ budget' = [budget EXCEPT !.life = @ - 1]

\* what a handler that ends in markDirty() records
Marked(op, arg) ==
  [Did(op) EXCEPT !.arg = arg, !.coalesced = (animationFrameId # 0)]

\* handleMouseDown without its test of x and y
handleMouseDown_NoCheck(data) ==
  /\ dragStart' = data
  /\ isDragging' = TRUE

\* handleMouseDown that raises the flag and records no anchor
handleMouseDown_NoAnchor(data) ==
  IF data # None
  THEN /\ isDragging' = TRUE
       /\ UNCHANGED dragStart
  ELSE UNCHANGED <<dragStart, isDragging>>

\* handleMouseDown(data); data = None: x or y is missing
handleMouseDown(data) ==
  IF data # None
  THEN /\ dragStart' = data
       /\ isDragging' = TRUE
  ELSE UNCHANGED <<dragStart, isDragging>>

MouseDown(data) ==
  /\ handleMouseDown(data)
  /\ last' = [Did("mouse-down") EXCEPT !.arg = data]
  /\ UNCHANGED <<envVars, yaw, pitch, zoom, imgVars, schedVars, canvas, labels,
                 loading, budget>>

\* handleMouseMove without its test of isDragging
Moves_IgnoreDragging(data) == data # None

\* whether handleMouseMove(data) changes the camera
Moves(data) == isDragging /\ data # None

\* handleMouseMove(data); data = None: dx or dy is missing
handleMouseMove(data) ==
  IF ~Moves(data)
  THEN UNCHANGED <<yaw, pitch, schedVars>>
  ELSE LET strategy == getProjectionStrategy(projectionType)
           velocity == getDragVelocity(strategy, DragPoint.nx, DragPoint.ny,
                                       config.sensitivity)
           p1 == pitch - data[1].dy * velocity.y
       IN /\ pitch' = clamp(p1, MIN_PITCH, MAX_PITCH)
          /\ yaw' = NormalizedSum(yaw, 0 - data[1].dx * velocity.x)
          /\ markDirty

MouseMove(data) ==
  /\ handleMouseMove(data)
  /\ IF Moves(data) THEN Spend ELSE UNCHANGED budget
  /\ last' = IF Moves(data) THEN Marked("mouse-move", data)
             ELSE [Did("mouse-move") EXCEPT !.arg = data]
  /\ UNCHANGED <<envVars, zoom, isDragging, dragStart, imgVars, canvas, labels,
                 loading>>

\* handleMouseUp that keeps the anchor
handleMouseUp_KeepAnchor ==
  /\ isDragging' = FALSE
  /\ UNCHANGED dragStart

\* handleMouseUp(): mouse-up, mouse-leave and (through handleTouchEnd) touch-end
handleMouseUp ==
  /\ isDragging' = FALSE
  /\ dragStart' = None

MouseUp(type) ==
  /\ handleMouseUp
  /\ last' = Did(type)
  /\ UNCHANGED <<envVars, yaw, pitch, zoom, imgVars, schedVars, canvas, labels,
                 loading, budget>>

\* the wheel zoom that zooms out on deltaY = 0
WheelZoom_ZeroOut(z, deltaY) ==
  LET zoomDelta == IF deltaY >= 0 THEN -1 ELSE 1
  IN clamp(z + zoomDelta, config.minZoom, config.maxZoom)

\* the wheel zoom that zooms in by 0.2
WheelZoom_InByTwo(z, deltaY) ==
  LET zoomDelta == IF deltaY > 0 THEN -1 ELSE 2
  IN clamp(z + zoomDelta, config.minZoom, config.maxZoom)

\* handleWheel: the zoom it leaves, from zoom z
WheelZoom(z, deltaY) ==
  LET zoomDelta == IF deltaY > 0 THEN -1 ELSE 1
  IN clamp(z + zoomDelta, config.minZoom, config.maxZoom)

\* handleWheel(data); deltaY = None: deltaY is missing
handleWheel(deltaY) ==
  IF deltaY # None
  THEN /\ zoom' = WheelZoom(zoom, deltaY[1])
       /\ markDirty
  ELSE UNCHANGED <<zoom, schedVars>>

Wheel(deltaY) ==
  /\ handleWheel(deltaY)
  /\ IF deltaY # None THEN Spend ELSE UNCHANGED budget
  /\ last' = IF deltaY # None THEN Marked("wheel", deltaY)
             ELSE [Did("wheel") EXCEPT !.arg = deltaY]
  /\ UNCHANGED <<envVars, yaw, pitch, isDragging, dragStart, imgVars, canvas,
                 labels, loading>>

\* handleTouchStart(data); touches is the touch list (None: absent)
TouchStart(touches) ==
  /\ IF touches # None /\ Len(touches[1]) > 0
     THEN handleMouseDown(Some(touches[1][1]))
     ELSE UNCHANGED <<dragStart, isDragging>>
  /\ last' = [Did("touch-start") EXCEPT !.arg = touches]
  /\ UNCHANGED <<envVars, yaw, pitch, zoom, imgVars, schedVars, canvas, labels,
                 loading, budget>>

\* the delta handleTouchMove hands to handleMouseMove, None when it does not
TouchDelta(touches) ==
  IF touches # None /\ Len(touches[1]) > 0 /\ dragStart # None
  THEN Some([dx |-> touches[1][1].x - dragStart[1].x,
             dy |-> touches[1][1].y - dragStart[1].y])
  ELSE None

\* handleTouchMove(data)
TouchMove(touches) ==
  /\ IF touches # None /\ Len(touches[1]) > 0 /\ dragStart # None
     THEN /\ handleMouseMove(TouchDelta(touches))
          /\ dragStart' = Some(touches[1][1])
     ELSE UNCHANGED <<yaw, pitch, schedVars, dragStart>>
  /\ IF Moves(TouchDelta(touches)) THEN Spend ELSE UNCHANGED budget
  /\ last' = IF Moves(TouchDelta(touches)) THEN Marked("touch-move", touches)
             ELSE [Did("touch-move") EXCEPT !.arg = touches]
  /\ UNCHANGED <<envVars, zoom, isDragging, imgVars, canvas, labels, loading>>

ArrowKeys == {"ArrowLeft", "ArrowRight", "ArrowUp", "ArrowDown"}

\* handleKeyDown without its test of enableKeyboard
KeyChanges_IgnoreConfig(key) == key \in ArrowKeys

\* whether handleKeyDown sets its flag "changed"
KeyChanges(key) == config.enableKeyboard /\ key \in ArrowKeys

\* handleKeyDown(data)
handleKeyDown(key) ==
  IF ~KeyChanges(key)
  THEN UNCHANGED <<yaw, pitch, schedVars>>
  ELSE LET d1 == CASE key = "ArrowLeft" -> 0 - step
                   [] key = "ArrowRight" -> step
                   [] OTHER -> 0
           p1 == CASE key = "ArrowUp" -> Min2(MAX_PITCH, pitch + step)
                   [] key = "ArrowDown" -> Max2(MIN_PITCH, pitch - step)
                   [] OTHER -> pitch
       IN /\ yaw' = NormalizedSum(yaw, d1)
          /\ pitch' = p1
          /\ markDirty

KeyDown(key) ==
  /\ handleKeyDown(key)
  /\ IF KeyChanges(key) THEN Spend ELSE UNCHANGED budget
  /\ last' = IF KeyChanges(key) THEN Marked("key-down", key)
             ELSE [Did("key-down") EXCEPT !.arg = key]
  /\ UNCHANGED <<envVars, zoom, isDragging, dragStart, imgVars, canvas, labels,
                 loading>>

\* ------------------------------------------------------ programmatic API
\* setState(partialState)
setState(partialState) ==
  \* partialState.isDragging is not read
  /\ yaw' = IF partialState.yaw # None THEN partialState.yaw[1] ELSE yaw
  /\ pitch' = IF partialState.pitch # None
              THEN clamp(partialState.pitch[1], MIN_PITCH, MAX_PITCH)
              ELSE pitch
  /\ zoom' = IF partialState.zoom # None
             THEN clamp(partialState.zoom[1], config.minZoom, config.maxZoom)
             ELSE zoom
  /\ markDirty

SetState(partialState) ==
  /\ setState(partialState)
  /\ Spend
  /\ last' = Marked("set-state", partialState)
  /\ UNCHANGED <<envVars, isDragging, dragStart, imgVars, canvas, labels, loading>>

\* setLabels(labels)
SetLabels(l) ==
  /\ IF labels # NULL
     THEN /\ labels' = l
          /\ markDirty
          /\ last' = Marked("set-labels", l)
     ELSE /\ UNCHANGED <<labels, schedVars>>
          /\ last' = [Did("set-labels") EXCEPT !.arg = l]
  /\ SpendLife
  /\ UNCHANGED <<envVars, camVars, dragVars, imgVars, canvas, loading>>

\* resize that tests the width only
Resize_WidthOnly(size) ==
  /\ IF size.width < MIN_CANVAS_SIZE
     THEN /\ UNCHANGED <<canvas, schedVars>>
          /\ last' = [Did("resize") EXCEPT !.arg = size,
                                           !.result = "canvas-too-small"]
     ELSE IF canvas = None
     THEN /\ UNCHANGED <<canvas, schedVars>>
          /\ last' = [Did("resize") EXCEPT !.arg = size, !.result = "TypeError"]
     ELSE /\ canvas' = Some(size)
          /\ markDirty
          /\ last' = Marked("resize", size)
  /\ SpendLife
  /\ UNCHANGED <<envVars, camVars, dragVars, imgVars, labels, loading>>

\* resize(width, height)
Resize(size) ==
  /\ IF size.width < MIN_CANVAS_SIZE \/ size.height < MIN_CANVAS_SIZE
     THEN /\ UNCHANGED <<canvas, schedVars>>
          /\ last' = [Did("resize") EXCEPT !.arg = size,
                                           !.result = "canvas-too-small"]
     ELSE IF canvas = None
     THEN \* this.canvas.width = width: TypeError on null
          /\ UNCHANGED <<canvas, schedVars>>
          /\ last' = [Did("resize") EXCEPT !.arg = size, !.result = "TypeError"]
     ELSE /\ canvas' = Some(size)
          /\ markDirty
          /\ last' = Marked("resize", size)
  /\ SpendLife
  /\ UNCHANGED <<envVars, camVars, dragVars, imgVars, labels, loading>>

\* destroy that leaves the requested animation frame
Destroy_KeepFrame ==
  /\ UNCHANGED <<animationFrameId, rafQueue>>
  /\ IF canvas = None
     THEN /\ UNCHANGED <<canvas, imgVars, labels>>
          /\ last' = [Did("destroy") EXCEPT !.result = "TypeError"]
     ELSE /\ canvas' = None
          /\ sourceCanvas' = NULL
          /\ sourceData' = NULL
          /\ labels' = NULL
          /\ UNCHANGED image
          /\ last' = Did("destroy")
  /\ SpendLife
  /\ UNCHANGED <<envVars, camVars, dragVars, isDirty, loading>>

\* destroy()
Destroy ==
  /\ IF animationFrameId # 0
     THEN /\ rafQueue' = rafQueue \ {animationFrameId}
          /\ animationFrameId' = 0
     ELSE UNCHANGED <<animationFrameId, rafQueue>>
  /\ IF canvas = None
     THEN \* this.canvas.getContext('2d'): TypeError on null
          /\ UNCHANGED <<canvas, imgVars, labels>>
          /\ last' = [Did("destroy") EXCEPT !.result = "TypeError"]
     ELSE /\ canvas' = None
          /\ sourceCanvas' = NULL
          /\ sourceData' = NULL
          /\ labels' = NULL
          /\ UNCHANGED image
          /\ last' = Did("destroy")
  /\ SpendLife
  /\ UNCHANGED <<envVars, camVars, dragVars, isDirty, loading>>


\* ---------------------------------------------------------- loadImage
\* the validation with its lower bounds off by one
ValidateImage_OffByOne(w, h) ==
  IF w <= MIN_IMAGE_WIDTH \/ h <= MIN_IMAGE_HEIGHT THEN "too-small"
  ELSE IF w > MAX_IMAGE_WIDTH \/ h > MAX_IMAGE_HEIGHT THEN "too-large"
  ELSE "ok"

\* img.onload: "Validate image dimensions"
ValidateImage(w, h) ==
  IF w < MIN_IMAGE_WIDTH \/ h < MIN_IMAGE_HEIGHT THEN "too-small"
  ELSE IF w > MAX_IMAGE_WIDTH \/ h > MAX_IMAGE_HEIGHT THEN "too-large"
  ELSE "ok"

\* loadImage(src): creates the Image and starts the transfer
LoadImage(src) ==
  /\ budget.load > 0
  /\ src \notin loading
  /\ loading' = loading \cup {src}
  /\ budget' = [budget EXCEPT !.load = @ - 1]
  /\ last' = [Did("load-image") EXCEPT !.arg = src]
  /\ UNCHANGED <<envVars, camVars, dragVars, imgVars, schedVars, canvas, labels>>

\* img.onload that makes the image active before it validates it
ImgOnload_AssignFirst(src) ==
  /\ src \in loading
  /\ loading' = loading \ {src}
  /\ image' = src
  /\ LET err == ValidateImage(ImageWidth(src), ImageHeight(src)) IN
       IF err # "ok"
       THEN /\ UNCHANGED <<sourceCanvas, sourceData, isDirty>>
            /\ last' = [Did("img-onload") EXCEPT !.arg = src, !.result = err,
                                                 !.promise = "rejected"]
       ELSE LET r == render(src, TRUE) IN
            /\ sourceCanvas' = r.sourceCanvas
            /\ sourceData' = r.sourceData
            /\ isDirty' = r.isDirty
            /\ last' = IF r.threw
                       THEN [Did("img-onload") EXCEPT !.arg = src,
                               !.result = "TypeError", !.promise = "pending"]
                       ELSE [Did("img-onload") EXCEPT !.arg = src,
                               !.frame = r.frame, !.onLoad = 1,
                               !.promise = "resolved"]
  /\ UNCHANGED <<envVars, camVars, dragVars, animationFrameId, rafQueue, canvas,
                 labels, budget>>

\* img.onload with the onLoad callback invoked ahead of the render
OnloadOrder_NotifyFirst(err, threw) ==
  IF err # "ok" THEN <<"reject">>
  ELSE IF threw THEN <<"image", "onLoad", "render">>
  ELSE <<"image", "onLoad", "render", "resolve">>

\* img.onload: its statements with an effect outside the handler, in the
\* order they run; a render that throws ends the handler
OnloadOrder(err, threw) ==
  IF err # "ok" THEN <<"reject">>
  ELSE IF threw THEN <<"image", "render">>
  ELSE <<"image", "render", "onLoad", "resolve">>

\* img.onload of the load of src
ImgOnload(src) ==
  /\ src \in loading
  /\ loading' = loading \ {src}
  /\ LET err == ValidateImage(ImageWidth(src), ImageHeight(src)) IN
       IF err # "ok"
       THEN /\ UNCHANGED <<imgVars, isDirty>>
            /\ last' = [Did("img-onload") EXCEPT !.arg = src, !.result = err,
                                                 !.promise = "rejected",
                                                 !.order = OnloadOrder(err, FALSE)]
       ELSE LET r == render(src, TRUE)
                order == OnloadOrder(err, r.threw)
                n == Cardinality({i \in 1..Len(order) : order[i] = "onLoad"})
            IN
            /\ image' = src
            /\ sourceCanvas' = r.sourceCanvas
            /\ sourceData' = r.sourceData
            /\ isDirty' = r.isDirty
            /\ last' = IF r.threw
                       THEN [Did("img-onload") EXCEPT !.arg = src,
                               !.result = "TypeError", !.promise = "pending",
                               !.onLoad = n, !.order = order]
                       ELSE [Did("img-onload") EXCEPT !.arg = src,
                               !.frame = r.frame, !.onLoad = n,
                               !.promise = "resolved", !.order = order]
  /\ UNCHANGED <<envVars, camVars, dragVars, animationFrameId, rafQueue, canvas,
                 labels, budget>>

\* img.onerror of the load of src (transport or decoding failed)
ImgOnerror(src) ==
  /\ src \in loading
  /\ loading' = loading \ {src}
  /\ last' = [Did("img-onerror") EXCEPT !.arg = src, !.result = "load-failed",
                !.promise = "rejected", !.onError = <<"load-failed">>]
  /\ UNCHANGED <<envVars, camVars, dragVars, imgVars, schedVars, canvas, labels,
                 budget>>

\* ------------------------------------------------------- specification
TouchLists == {None, Some(<<>>)} \cup {Some(<<p>>) : p \in Positions}

Next ==
  \/ \E data \in {None} \cup {Some(p) : p \in Positions} : MouseDown(data)
  \/ \E data \in {None} \cup {Some(d) : d \in Deltas} : MouseMove(data)
  \/ \E type \in {"mouse-up", "mouse-leave", "touch-end"} : MouseUp(type)
  \/ \E deltaY \in {None} \cup {Some(d) : d \in WheelDeltas} : Wheel(deltaY)
  \/ \E touches \in TouchLists : TouchStart(touches)
  \/ \E touches \in TouchLists : TouchMove(touches)
  \/ \E key \in Keys : KeyDown(key)
  \/ \E partialState \in Partials : SetState(partialState)
  \/ \E l \in LabelSets : SetLabels(l)
  \/ \E size \in CanvasSizes : Resize(size)
  \/ Destroy
  \/ \E src \in Srcs : LoadImage(src)
  \/ \E src \in Srcs : ImgOnload(src)
  \/ \E src \in Srcs : ImgOnerror(src)
  \/ \E id \in 1..MaxFrames : AnimationFrame(id)

Spec == Init /\ [][Next]_vars

\* The display refresh: the browser runs every callback registered with
\* requestAnimationFrame, unless cancelAnimationFrame removed it first.
\* LiveSpec is the renderer with default options under an environment that
\* makes one call of each budget.
LiveBudget == [cam |-> 1, load |-> 1, life |-> 1]

LiveInit ==
  /\ budget = LiveBudget
  /\ Construct(NoOptions)
  /\ probe = NoProbe

DisplayRefresh == \E id \in 1..MaxFrames : AnimationFrame(id)

LiveSpec == LiveInit /\ [][Next]_vars /\ WF_vars(DisplayRefresh)


\* The image pipeline alone: two loadImage calls of the application (the
\* hook issues one on mount and one whenever its src changes, without
\* waiting for the one before), and the browser, which ends every transfer
\* it started with the load event or the error event.
RaceBudget == [cam |-> 0, load |-> 2, life |-> 0]

RaceInit ==
  /\ budget = RaceBudget
  /\ Construct(NoOptions)
  /\ probe = NoProbe

Completion(src) == ImgOnload(src) \/ ImgOnerror(src)

RaceNext ==
  \/ \E src \in Srcs : LoadImage(src)
  \/ \E src \in Srcs : ImgOnload(src)
  \/ \E src \in Srcs : ImgOnerror(src)

RaceSpec ==
  RaceInit /\ [][RaceNext]_vars /\ \A src \in Srcs : WF_vars(Completion(src))


\* ------------------------------------------- functions of a render pass
\* The rasterizer's sampling, the label pass, the projections and the choice
\* of the projection are functions of their arguments.  Each is evaluated on
\* arguments drawn from the sets below: probe.in holds the arguments and
\* probe.out the result, once it was evaluated.
rendererVars == <<config, projectionType, yaw, pitch, zoom, isDragging,
                  dragStart, image, sourceCanvas, sourceData, isDirty,
                  animationFrameId, rafQueue, canvas, labels, loading, budget,
                  last>>

Probe(fn, in) == [fn |-> fn, in |-> in, out |-> None]

Abs(a) == IF a < 0 THEN 0 - a ELSE a

\* JavaScript a % b for b > 0: the remainder has the sign of the dividend
JsRem(a, b) == IF a >= 0 THEN a % b ELSE 0 - ((0 - a) % b)

\* ---- rasterizer: the source pixel of one destination pixel
\* largest image side sampled
MaxSide == 4

\* Math.floor of a sample coordinate counted in halves of a pixel
Floor(c) == c \div 2

\* the column index with a single remainder
wrappedSrcX_SingleRem(srcX, imageWidth) == JsRem(srcX, imageWidth)

\* ((srcX % imageWidth) + imageWidth) % imageWidth
wrappedSrcX(srcX, imageWidth) ==
  JsRem(JsRem(srcX, imageWidth) + imageWidth, imageWidth)

\* the row index wrapped the way the column index is
wrappedSrcY_Wrap(srcY, imageHeight) ==
  JsRem(JsRem(srcY, imageHeight) + imageHeight, imageHeight)

\* Math.max(0, Math.min(imageHeight - 1, srcY))
wrappedSrcY(srcY, imageHeight) == Max2(0, Min2(imageHeight - 1, srcY))

\* sample coordinates (in halves of a pixel) from two image widths to the
\* left of the image to two to the right, and the same vertically
SampleProbes ==
  { Probe("sample", [x |-> x, y |-> y, imageWidth |-> w, imageHeight |-> h]) :
      x \in (0 - 4 * MaxSide)..(4 * MaxSide),
      y \in (0 - 4 * MaxSide)..(4 * MaxSide),
      w \in 1..MaxSide, h \in 1..MaxSide }

\* render(), the body of the pixel loop after projectToSource returned
\* sample: the index of the source pixel copied to the destination
SamplePixel ==
  /\ probe.fn = "sample"
  /\ probe.out = None
  /\ LET sample == probe.in
         srcX == Floor(sample.x)
         srcY == Floor(sample.y)
         wx == wrappedSrcX(srcX, sample.imageWidth)
         wy == wrappedSrcY(srcY, sample.imageHeight)
     IN probe' = [probe EXCEPT !.out =
                    Some([srcX |-> srcX, srcY |-> srcY,
                          wrappedSrcX |-> wx, wrappedSrcY |-> wy,
                          srcIndex |-> (wy * sample.imageWidth + wx) * 4])]
  /\ UNCHANGED rendererVars

\* ---- projection strategies
\* Normalized viewport coordinates (nx, ny, r) are counted in hundredths and
\* zoom in tenths; the field of view is the default one, 90 degrees.  The
\* angles of a radial strategy are counted in the measure that makes its
\* viewportToAngles formula linear, in hundredths:
\*   stereographic  2 tan(fov / 4) tan(angle / 2),
\*   equidistant    angle * maxRadius / (fov / 2),
\*   equisolid      2 sin(angle / 2),
\* applied to the length of (theta, phi), the direction being kept; the
\* angles of the rectilinear strategy are counted by tan(angle) / tan(fov / 2)
\* on each axis.  An angle below 0.0001 rad has measure 0 and every other
\* angle of the inputs below has a measure of at least one hundredth.
Roots == 0..500
IsSquare(n) == \E k \in Roots : k * k = n
Sqrt(n) == CHOOSE k \in Roots : k * k = n

\* viewportToAngles of a radial strategy: the angle of radius r
\*   stereographic  angle = 2 atan(r / (2 tan(maxAngle / 2)))
\*   equidistant    angle = r * (fov / 2) / maxRadius
\*   equisolid      angle = 2 asin(min(r / 2, 1))
RadialAngle(strategy, r) ==
  IF strategy = EQUISOLID THEN Min2(r, 200) ELSE r

\* anglesToViewport of a radial strategy: the radius of an angle
\*   stereographic  r = 2 tan(angle / 2) * (2 tan(maxAngle / 2))
\*   equidistant    r = angle * maxRadius / (fov / 2)
\*   equisolid      r = 2 sin(angle / 2)
RadialRadius(strategy, angle) ==
  IF strategy = STEREOGRAPHIC THEN 2 * angle ELSE angle

\* strategy.viewportToAngles(nx, ny, fov, aspectRatio)
viewportToAngles(strategy, nx, ny, aspectRatio) ==
  IF strategy = RECTILINEAR
  THEN [theta |-> nx * aspectRatio, phi |-> ny]
  ELSE LET adjustedNx == nx * aspectRatio
           r == Sqrt(adjustedNx * adjustedNx + ny * ny)
       IN IF r = 0
          THEN [theta |-> 0, phi |-> 0]
          ELSE LET angle == RadialAngle(strategy, r)
               IN [theta |-> (angle * adjustedNx) \div r,
                   phi |-> (angle * ny) \div r]

\* strategy.anglesToViewport(theta, phi, fov, aspectRatio)
anglesToViewport(strategy, theta, phi, aspectRatio) ==
  IF strategy = RECTILINEAR
  THEN [nx |-> theta \div aspectRatio, ny |-> phi]
  ELSE LET angle == Sqrt(theta * theta + phi * phi)
       IN IF angle = 0
          THEN [nx |-> 0, ny |-> 0]
          ELSE LET r == RadialRadius(strategy, angle)
                   nx == (r * theta) \div angle
                   ny == (r * phi) \div angle
               IN [nx |-> nx \div aspectRatio, ny |-> ny]

\* viewports of the projections; the aspect ratios are 2, 1 and 4
Viewports ==
  { [width |-> 200, height |-> 100], [width |-> 200, height |-> 200],
    [width |-> 400, height |-> 100] }
AspectRatio(v) == v.width \div v.height

NdcValues == {-100, -50, -40, -30, -24, -15, 0, 9, 15, 24, 30, 40, 50, 100}

\* the points of the viewport whose radius is a whole number of hundredths
\* and, past the equisolid limit r = 2, lie on an axis: every division of
\* the strategies is exact on them
RoundTripProbes ==
  { p \in { Probe("round-trip", [type |-> t, nx |-> nx, ny |-> ny,
                                 aspectRatio |-> AspectRatio(v)]) :
              t \in ProjectionTypes, nx \in NdcValues, ny \in NdcValues,
              v \in Viewports } :
      LET rr == (p.in.nx * p.in.aspectRatio) * (p.in.nx * p.in.aspectRatio)
                  + p.in.ny * p.in.ny
      IN /\ IsSquare(rr)
         /\ (Sqrt(rr) <= 200 \/ p.in.nx = 0 \/ p.in.ny = 0) }

\* anglesToViewport(viewportToAngles(nx, ny, fov, ar), fov, ar)
RoundTrip ==
  /\ probe.fn = "round-trip"
  /\ probe.out = None
  /\ LET strategy == getProjectionStrategy(probe.in.type)
         a == viewportToAngles(strategy, probe.in.nx, probe.in.ny,
                               probe.in.aspectRatio)
         n == anglesToViewport(strategy, a.theta, a.phi, probe.in.aspectRatio)
     IN probe' = [probe EXCEPT !.out =
                    Some([theta |-> a.theta, phi |-> a.phi,
                          nx |-> n.nx, ny |-> n.ny])]
  /\ UNCHANGED rendererVars

\* ---- projectToViewport and projectToSource
\* a viewport pixel, in the units its coordinates are counted in
PxUnit == 2000

\* projectToViewport steps 6 to 9 without the angular gate
viewportPixel_NoAngularGate(nx, ny, width, height, z) ==
  LET zoomedNx == nx * z
      zoomedNy == ny * z
      x == (zoomedNx + 1000) * width
      y == (zoomedNy + 1000) * height
  IN IF \/ x < (0 - 100) * PxUnit \/ x > (width + 100) * PxUnit
        \/ y < (0 - 100) * PxUnit \/ y > (height + 100) * PxUnit
     THEN None
     ELSE Some([x |-> x, y |-> y])

\* projectToViewport steps 6 to 9: the two visibility gates, the zoom and
\* the pixel of the normalized coordinates anglesToViewport returned;
\* x = ((zoomedNx + 1) / 2) * width with zoomedNx in thousandths
viewportPixel(nx, ny, width, height, z) ==
  IF Abs(nx) > 120 \/ Abs(ny) > 120
  THEN None
  ELSE LET zoomedNx == nx * z
           zoomedNy == ny * z
           x == (zoomedNx + 1000) * width
           y == (zoomedNy + 1000) * height
       IN IF \/ x < (0 - 100) * PxUnit \/ x > (width + 100) * PxUnit
             \/ y < (0 - 100) * PxUnit \/ y > (height + 100) * PxUnit
          THEN None
          ELSE Some([x |-> x, y |-> y])

\* An angle on the sphere: the view angle a strategy returned (in the
\* measure of the strategy) plus a camera angle in half degrees.  A sample
\* coordinate is counted by the longitude or latitude it stands for:
\* srcX = (lon + PI) / (2 PI) * imageWidth, srcY = (lat + PI / 2) / PI *
\* imageHeight, and projectToViewport converts them back with the same
\* image size.
Rotated(view, cam) == [view |-> view, cam |-> cam]

\* the number an angle on the sphere is once the camera rotation is undone
ViewAngle(a) == CHOOSE v \in {a.view} : a.cam = 0

\* radius, in hundredths, within which every strategy gives a view angle
\* below 45 degrees at the default field of view: with a camera angle of at
\* most 45 degrees neither loop of the longitude normalization runs and the
\* latitude clamp changes nothing
InteriorRadius == 30

\* projectToSource(x, y, width, height, imageWidth, imageHeight, yaw, pitch,
\* zoom, fov, projectionType)
projectToSource(x, y, width, height, yaw0, pitch0, z, type) ==
  LET nx == (200 * x) \div width - 100
      ny == (200 * y) \div height - 100
      aspectRatio == width \div height
      zoomedNx == (nx * 10) \div z
      zoomedNy == (ny * 10) \div z
      strategy == getProjectionStrategy(type)
      a == viewportToAngles(strategy, zoomedNx, zoomedNy, aspectRatio)
  IN [x |-> Rotated(a.theta, yaw0), y |-> Rotated(a.phi, pitch0)]

\* projectToViewport(srcX, srcY, imageWidth, imageHeight, width, height, yaw,
\* pitch, zoom, fov, projectionType)
projectToViewport(srcX, srcY, width, height, yaw0, pitch0, z, type) ==
  LET theta == ViewAngle(Rotated(srcX.view, srcX.cam - yaw0))
      phi == ViewAngle(Rotated(srcY.view, srcY.cam - pitch0))
      aspectRatio == width \div height
      strategy == getProjectionStrategy(type)
      n == anglesToViewport(strategy, theta, phi, aspectRatio)
  IN viewportPixel(n.nx, n.ny, width, height, z)

CameraAngles == {Deg(-45), 0, Deg(45)}
ProbeZooms == {5, 10, 20}

\* the pixels of the interior whose normalized coordinates and radius are
\* whole numbers of hundredths
ProjectProbes ==
  { p \in { Probe("project", [x |-> x, y |-> y, width |-> v.width,
                              height |-> v.height, yaw |-> cy, pitch |-> cp,
                              zoom |-> z, projectionType |-> t]) :
              x \in {91, 100, 109, 115, 118}, y \in {38, 50, 56, 62, 74, 124},
              v \in {w \in Viewports : w.width = 200},
              cy \in CameraAngles, cp \in CameraAngles, z \in ProbeZooms,
              t \in ProjectionTypes } :
      LET nx == (200 * p.in.x) \div p.in.width - 100
          ny == (200 * p.in.y) \div p.in.height - 100
          zx == (nx * 10) \div p.in.zoom
          zy == (ny * 10) \div p.in.zoom
          ar == p.in.width \div p.in.height
          rr == (zx * ar) * (zx * ar) + zy * zy
      IN /\ (200 * p.in.x) % p.in.width = 0
         /\ (200 * p.in.y) % p.in.height = 0
         /\ (nx * 10) % p.in.zoom = 0
         /\ (ny * 10) % p.in.zoom = 0
         /\ IsSquare(rr)
         /\ Sqrt(rr) <= InteriorRadius }

\* projectToViewport(projectToSource(x, y, ...).x, .y, ...) with the same
\* camera parameters
ProjectAndBack ==
  /\ probe.fn = "project"
  /\ probe.out = None
  /\ LET i == probe.in
         sample == projectToSource(i.x, i.y, i.width, i.height, i.yaw,
                                   i.pitch, i.zoom, i.projectionType)
         back == projectToViewport(sample.x, sample.y, i.width, i.height,
                                   i.yaw, i.pitch, i.zoom, i.projectionType)
     IN probe' = [probe EXCEPT !.out = Some([sample |-> sample, back |-> back])]
  /\ UNCHANGED rendererVars

\* ---- label pass
\* the test of the label's visibility that asks for all four corners
labelVisible_AllFour(visible) == Len(visible) = 4

\* if (visibleCorners.length === 0) continue
labelVisible(visible) == Len(visible) # 0

\* the test of the title that accepts a box of the threshold size
titleFits_AtLeast(title, rectW, rectH) ==
  title # "" /\ rectW >= 50 * PxUnit /\ rectH >= 20 * PxUnit

\* label.title && rectW > 50 && rectH > 20
titleFits(title, rectW, rectH) ==
  title # "" /\ rectW > 50 * PxUnit /\ rectH > 20 * PxUnit

SeqMin(s) == CHOOSE v \in {s[i] : i \in 1..Len(s)} : \A i \in 1..Len(s) : v <= s[i]
SeqMax(s) == CHOOSE v \in {s[i] : i \in 1..Len(s)} : \A i \in 1..Len(s) : v >= s[i]

\* LabelRenderer.render, the body of the loop for one label: the corners
\* projected and the calls made on the canvas context.  label.ndc holds, for
\* each of the four corners in the order of the code, the normalized
\* coordinates anglesToViewport returns for it.
renderLabel(label, viewportWidth, viewportHeight, z) ==
  LET projectedCorners ==
        [i \in 1..4 |-> viewportPixel(label.ndc[i][1], label.ndc[i][2],
                                      viewportWidth, viewportHeight, z)]
      visibleCorners == SelectSeq(projectedCorners, LAMBDA c : c # None)
  IN IF ~labelVisible(visibleCorners)
     THEN [projectedCorners |-> projectedCorners, fillRect |-> None,
           strokeRect |-> None, fillText |-> None]
     ELSE LET xs == [i \in 1..Len(visibleCorners) |-> visibleCorners[i][1].x]
              ys == [i \in 1..Len(visibleCorners) |-> visibleCorners[i][1].y]
              rect == [x |-> SeqMin(xs), y |-> SeqMin(ys),
                       w |-> SeqMax(xs) - SeqMin(xs),
                       h |-> SeqMax(ys) - SeqMin(ys)]
          IN [projectedCorners |-> projectedCorners,
              fillRect |-> Some(rect), strokeRect |-> Some(rect),
              fillText |-> IF titleFits(label.title, rect.w, rect.h)
                           THEN Some([text |-> label.title,
                                      x |-> rect.x + rect.w \div 2,
                                      y |-> rect.y + rect.h \div 2])
                           ELSE None]

\* normalized coordinates of a corner: the ends of a box of 50 by 20 pixels
\* at zoom 1 in a viewport of 200 by 100, a point just outside it, points
\* past the angular gate, on it, and on the pixel gates at zoom 2 and 3
CornerPoints ==
  { <<-25, -20>>, <<25, 20>>, <<26, 22>>, <<121, 0>>, <<0, -121>>,
    <<120, 120>>, <<-100, 0>>, <<100, 0>>, <<0, 100>> }

LabelZooms == {10, 20, 30}

LabelProbes ==
  { Probe("label", [label |-> [title |-> t, ndc |-> <<c1, c2, c3, c4>>],
                    viewportWidth |-> 200, viewportHeight |-> 100, zoom |-> z]) :
      t \in {"", "T"}, c1 \in CornerPoints, c2 \in CornerPoints,
      c3 \in CornerPoints, c4 \in CornerPoints, z \in LabelZooms }

RenderLabel ==
  /\ probe.fn = "label"
  /\ probe.out = None
  /\ probe' = [probe EXCEPT !.out =
                 Some(renderLabel(probe.in.label, probe.in.viewportWidth,
                                  probe.in.viewportHeight, probe.in.zoom))]
  /\ UNCHANGED rendererVars

\* ---- choice of the projection
\* value.toLowerCase().trim() on the values of the projection parameter
UrlValues == {"", "equisolid", "EQUISOLID", " Rectilinear ", "stereographic",
              "equidistant", "fisheye"}
toLowerCaseTrim(value) ==
  CASE value = "EQUISOLID" -> "equisolid"
    [] value = " Rectilinear " -> "rectilinear"
    [] OTHER -> value

\* urlParams.ts parseProjection(value)
parseProjection(value) ==
  IF value = ""
  THEN None
  ELSE LET normalized == toLowerCaseTrim(value)
       IN IF normalized \in ProjectionTypes THEN Some(normalized) ELSE None

\* parseUrlParams: searchParams.get('projection') || '', None: no parameter
parseUrlParams(param) == parseProjection(IF param = None THEN "" ELSE param[1])

\* the projection is requested in the URL of the viewer page, or in the
\* config handed to the constructor
SelectProbes ==
  { Probe("select", [route |-> "url", projection |-> p]) :
      p \in {None} \cup {Some(v) : v \in UrlValues} }
  \cup
  { Probe("select", [route |-> "config", projection |-> p]) :
      p \in {None} \cup {Some(t) : t \in ProjectionTypes \cup {"bogus"}} }

\* App: parseUrlParams, useFishEyePanorama({projectionType: params.projection}),
\* new FishEyePanoramaRenderer(canvas, config); the strategy is the one
\* render, the label pass and the drag velocity obtain for this.projectionType
SelectProjection ==
  /\ probe.fn = "select"
  /\ probe.out = None
  /\ LET option == IF probe.in.route = "url"
                   THEN parseUrlParams(probe.in.projection)
                   ELSE probe.in.projection
         cfg == ApplyDefaults([NoOptions EXCEPT !.projectionType = option])
     IN probe' = [probe EXCEPT !.out =
                    Some([projectionType |-> cfg.projectionType,
                          strategy |-> getProjectionStrategy(cfg.projectionType)])]
  /\ UNCHANGED rendererVars

Probes ==
  SampleProbes \cup LabelProbes \cup RoundTripProbes \cup ProjectProbes
    \cup SelectProbes

FnInit ==
  /\ budget = [cam |-> 0, load |-> 0, life |-> 0]
  /\ Construct(NoOptions)
  /\ probe \in Probes

FnNext ==
  \/ SamplePixel
  \/ RenderLabel
  \/ RoundTrip
  \/ ProjectAndBack
  \/ SelectProjection

FnSpec == FnInit /\ [][FnNext]_vars


\* --------------------------------------------------------- properties
\* a load completed and its promise was rejected
LoadFailed(l) == l.op \in {"img-onload", "img-onerror"} /\ l.promise = "rejected"

\* C1: in every reachable state the yaw reported by getState lies in
\* [-180, 180) degrees.
C1_YawInRange == Yaw(-180) <= yaw /\ yaw < Yaw(180)

\* C2: in every reachable state the pitch reported by getState lies in
\* [-90, 90] degrees.
C2_PitchInRange == Deg(-90) <= pitch /\ pitch <= Deg(90)

\* C2 witness: setState was given a pitch of 95 degrees and the reported
\* pitch is 90.
C2_Witness ==
  /\ last.op = "set-state"
  /\ last.arg.pitch = Some(Deg(95))
  /\ pitch = Deg(90)

\* C3: in every reachable state the zoom reported by getState satisfies
\* minZoom <= zoom <= maxZoom.
C3_ZoomInRange == config.minZoom <= zoom /\ zoom <= config.maxZoom

\* C4: the cached source buffer never holds the pixels of an image other
\* than the active one: whenever an image is active and a snapshot is cached,
\* the snapshot is of the active image, and every rasterized frame sampled a
\* snapshot of the image it was rendered for.
C4_CacheIsActiveImage ==
  /\ (image # NULL /\ sourceData # NULL => sourceData = image)
  /\ (last.frame # None => last.frame[1].source = last.frame[1].image)

\* C5 (as claimed): a completed load of a decoded w x h image succeeds exactly
\* when 512 <= w <= 8192 and 256 <= h <= 4096, fails with a too-small error
\* when w < 512 or h < 256, and with a too-large error when w > 8192 or
\* h > 4096.
C5_Original ==
  last.op = "img-onload" =>
    LET w == ImageWidth(last.arg)
        h == ImageHeight(last.arg)
    IN /\ (last.result \notin {"too-small", "too-large"}
             <=> (512 <= w /\ w <= 8192 /\ 256 <= h /\ h <= 4096))
       /\ (w < 512 \/ h < 256 => last.result = "too-small")
       /\ (w > 8192 \/ h > 4096 => last.result = "too-large")

\* C5 (amended): a completed load of a decoded w x h image passes validation,
\* the image becoming the active one, exactly when 512 <= w <= 8192 and
\* 256 <= h <= 4096; it is rejected with a too-small error exactly when
\* w < 512 or h < 256, and with a too-large error exactly when neither holds
\* and w > 8192 or h > 4096.
C5_Validation ==
  last.op = "img-onload" =>
    LET w == ImageWidth(last.arg)
        h == ImageHeight(last.arg)
        small == w < 512 \/ h < 256
        large == w > 8192 \/ h > 4096
    IN /\ (last.result \notin {"too-small", "too-large"} <=> ~small /\ ~large)
       /\ (last.result = "too-small" <=> small)
       /\ (last.result = "too-large" <=> ~small /\ large)
       /\ (last.result \in {"too-small", "too-large"} <=> last.promise = "rejected")
       /\ (~small /\ ~large => image = last.arg)

\* C5 witness: the load of an 8193 x 255 image completed and was rejected as
\* too small.
C5_Witness ==
  /\ last.op = "img-onload"
  /\ ImageWidth(last.arg) = 8193
  /\ ImageHeight(last.arg) = 255
  /\ last.result = "too-small"

\* C6: a load that fails (validation, or transport / decoding) leaves the
\* active image, the cached source buffer, the camera state and the dirty
\* flag as they were.
C6_FailedLoadChangesNothing ==
  [][LoadFailed(last') =>
       UNCHANGED <<image, sourceCanvas, sourceData, yaw, pitch, zoom,
                   isDragging, isDirty>>]_vars

\* C6 witness: a load failed validation while an earlier image is active
\* and cached.
C6_Witness ==
  /\ LoadFailed(last)
  /\ last.op = "img-onload"
  /\ image # NULL
  /\ sourceData = image

\* C7: every load that does not succeed invokes onError exactly once with
\* the error its promise is rejected with.
C7_FailureCallsOnError ==
  LoadFailed(last) => last.onError = <<last.result>>

\* C8: at most one scheduled render is pending at any time.
C8_OneRenderPending == Cardinality(rafQueue) <= 1

\* C8 witness: a dirty-mark was issued while a render was already scheduled,
\* and one callback is pending.
C8_Witness ==
  /\ last.coalesced
  /\ isDirty
  /\ Cardinality(rafQueue) = 1

\* C9: a render invoked while the frame is not dirty rasterizes nothing and
\* changes nothing, and after a render pass that rasterized a frame the dirty
\* flag is false.
C9_RenderOnlyWhenDirty ==
  /\ [](last.frame # None => ~isDirty)
  /\ [][(last'.op = "animation-frame" /\ ~isDirty) =>
          /\ last'.frame = None
          /\ UNCHANGED <<image, sourceCanvas, sourceData, isDirty, yaw, pitch,
                         zoom, isDragging, canvas, labels>>]_vars

\* C9 witness: the scheduled render ran on a clean frame of a loaded image
\* (loadImage had rendered in between) and rasterized nothing.
C9_Witness ==
  /\ last.op = "animation-frame"
  /\ last.frame = None
  /\ last.result = "ok"
  /\ image # NULL
  /\ sourceData # NULL
  /\ ~isDirty

\* C10 (as claimed): every completed render pass, the synchronous one of
\* loadImage included, is followed by exactly one onViewChange invocation
\* carrying the camera state that was rendered.
C10_Original ==
  last.frame # None =>
    /\ Len(last.onViewChange) = 1
    /\ last.onViewChange[1].yaw = last.frame[1].yaw
    /\ last.onViewChange[1].pitch = last.frame[1].pitch
    /\ last.onViewChange[1].zoom = last.frame[1].zoom

\* C10 (amended): every render pass completed by the scheduled
\* display-refresh callback is followed by exactly one onViewChange invocation
\* carrying the camera state that was rendered; the synchronous render of a
\* successful loadImage invokes onViewChange not at all.
C10_ScheduledRenderNotifies ==
  /\ (last.op = "animation-frame" /\ last.frame # None =>
        /\ Len(last.onViewChange) = 1
        /\ last.onViewChange[1].yaw = last.frame[1].yaw
        /\ last.onViewChange[1].pitch = last.frame[1].pitch
        /\ last.onViewChange[1].zoom = last.frame[1].zoom)
  /\ (last.op = "img-onload" => last.onViewChange = <<>>)

\* C10 witness: the scheduled callback rasterized a frame of a camera state
\* other than the initial one.
C10_Witness ==
  /\ last.op = "animation-frame"
  /\ last.frame # None
  /\ last.frame[1].yaw # config.initialYaw
  /\ Len(last.onViewChange) = 1

\* C11: destroy called on a renderer that is already destroyed raises no
\* error and leaves the renderer in the same destroyed state.
C11_DestroyIdempotent ==
  [][(last'.op = "destroy" /\ canvas = None) =>
       /\ last'.result = "ok"
       /\ UNCHANGED <<canvas, labels, image, sourceCanvas, sourceData, yaw,
                      pitch, zoom, isDragging>>]_vars

\* C12: immediately after destroy, in whatever state it was called, no
\* scheduled render is pending and the cached source buffer is released.
C12_DestroyReleases ==
  last.op = "destroy" =>
    /\ animationFrameId = 0
    /\ rafQueue = {}
    /\ sourceCanvas = NULL
    /\ sourceData = NULL

\* C12 witness: destroy was called on a renderer with a rendered image and a
\* frame marked dirty since (so that a render was pending).
C12_Witness ==
  /\ last.op = "destroy"
  /\ last.result = "ok"
  /\ image # NULL
  /\ isDirty
  /\ rafQueue = {}
  /\ sourceData = NULL

\* C13: on a renderer that has not been destroyed, resize(width, height)
\* fails with a canvas-too-small error exactly when width < 100 or
\* height < 100, and then the render-target dimensions, the dirty flag and
\* the pending-render token are unchanged; otherwise it sets the
\* render-target dimensions to (width, height) and marks the frame dirty.
C13_Resize ==
  [][(last'.op = "resize" /\ canvas # None) =>
       LET size == last'.arg IN
         /\ (last'.result = "canvas-too-small"
               <=> (size.width < 100 \/ size.height < 100))
         /\ (size.width < 100 \/ size.height < 100 =>
               UNCHANGED <<canvas, isDirty, animationFrameId, rafQueue>>)
         /\ (~(size.width < 100 \/ size.height < 100) =>
               /\ last'.result = "ok"
               /\ canvas' = Some(size)
               /\ isDirty'
               /\ animationFrameId' # 0)]_vars

\* C13 witness: resize(500, 99) was rejected while the frame was clean and a
\* rendered image was displayed.
C13_Witness ==
  /\ last.op = "resize"
  /\ last.arg = [width |-> 500, height |-> 99]
  /\ last.result = "canvas-too-small"
  /\ canvas # None
  /\ image # NULL
  /\ ~isDirty

\* the count of half degrees nearest to a yaw
Nominal(y) == (y + YawScale \div 2) \div YawScale

\* whether a yaw is a whole count of half degrees
Exact(y) == y % YawScale = 0

\* the yaw after n key-down(ArrowRight) from yaw y
RECURSIVE Presses(_, _)
Presses(y, n) == IF n = 0 THEN y ELSE Presses(NormalizedSum(y, step), n - 1)

\* C14 (as claimed): with keyboard enabled, key-down(ArrowRight) from a yaw y
\* in [-180, 175) leaves y + 5 and key-down(ArrowLeft) from a yaw y in
\* [-175, 180] leaves y - 5; ArrowUp / ArrowDown leave the pitch plus / minus
\* 5 degrees clamped to [-90, 90]; five ArrowRight from 0 give 25.
C14_Original ==
  /\ [][(last'.op = "key-down" /\ config.enableKeyboard /\ Exact(yaw)) =>
          /\ (last'.arg = "ArrowRight" /\ Yaw(-180) <= yaw /\ yaw < Yaw(175) =>
                yaw' = yaw + Yaw(5))
          /\ (last'.arg = "ArrowLeft" /\ Yaw(-175) <= yaw /\ yaw <= Yaw(180) =>
                yaw' = yaw - Yaw(5))
          /\ (last'.arg = "ArrowUp" => pitch' = Min2(Deg(90), pitch + Deg(5)))
          /\ (last'.arg = "ArrowDown" => pitch' = Max2(Deg(-90), pitch - Deg(5)))]_vars
  /\ [](Presses(0, 5) = Yaw(25))

\* C14 (amended): with keyboard enabled, key-down(ArrowRight) adds 5 degrees
\* to the yaw and key-down(ArrowLeft) subtracts 5 degrees, the sum being
\* renormalized into [-180, 180], up to the rounding error of the
\* renormalization (the yaw left is the double nearest to the normalized sum
\* or a neighbour of it, and need not be the sum itself); ArrowUp / ArrowDown
\* leave the pitch plus / minus 5 degrees clamped to [-90, 90] and the yaw
\* renormalized; five ArrowRight from 0 give exactly 25, while ArrowRight
\* from 10 gives 14.999999999999998.
C14_KeyStep ==
  /\ [][(last'.op = "key-down" /\ config.enableKeyboard
           /\ last'.arg \in ArrowKeys) =>
          LET d == CASE last'.arg = "ArrowRight" -> Deg(5)
                     [] last'.arg = "ArrowLeft" -> Deg(-5)
                     [] OTHER -> 0
              sum == Nominal(yaw) + d
              wrapped == IF sum > Deg(180) THEN sum - Deg(360)
                         ELSE IF sum < Deg(-180) THEN sum + Deg(360)
                         ELSE sum
          IN /\ Nominal(yaw') = wrapped
             /\ Deg(-180) <= Nominal(yaw') /\ Nominal(yaw') <= Deg(180)
             /\ (last'.arg = "ArrowUp" => pitch' = Min2(Deg(90), pitch + Deg(5)))
             /\ (last'.arg = "ArrowDown" => pitch' = Max2(Deg(-90), pitch - Deg(5)))
             /\ (last'.arg \in {"ArrowLeft", "ArrowRight"} => pitch' = pitch)]_vars
  /\ [](Presses(0, 5) = Yaw(25))
  /\ [](NormalizedSum(Yaw(10), step) = Yaw(15) - 1)

\* C14 witness: key-down(ArrowRight) from yaw 10 left 14.999999999999998,
\* the double below 15.
C14_Witness ==
  /\ last.op = "key-down"
  /\ last.arg = "ArrowRight"
  /\ config.enableKeyboard
  /\ yaw = Yaw(15) - 1

C16_Wheel ==
  [][(last'.op = "wheel" /\ last'.arg # None) =>
       LET target == IF last'.arg[1] > 0 THEN zoom - 1 ELSE zoom + 1 IN
         /\ zoom' = Max2(config.minZoom, Min2(config.maxZoom, target))
         /\ UNCHANGED <<yaw, pitch, isDragging>>
         /\ isDirty'
         /\ animationFrameId' # 0]_vars

\* C16 witness: a wheel input with deltaY = 0 raised the zoom from 1.0 to 1.1.
C16_Witness ==
  /\ last.op = "wheel"
  /\ last.arg = Some(0)
  /\ config.initialZoom = 10
  /\ zoom = 11
  /\ isDirty

C18_MoveWithoutDrag ==
  [][(last'.op \in {"mouse-move", "touch-move"} /\ ~isDragging) =>
       UNCHANGED <<yaw, pitch, zoom, dragStart, isDirty, animationFrameId,
                   rafQueue>>]_vars

\* C18 witness: a pointer-move carrying a delta arrived after the drag had
\* ended, on a clean frame.
C18_Witness ==
  /\ last.op = "mouse-move"
  /\ last.arg # None
  /\ ~isDragging
  /\ ~isDirty
  /\ image # NULL

\* C19: after a pointer-up, pointer-leave or touch-end, from any state,
\* isDragging is false and the drag anchor is cleared while yaw, pitch, zoom
\* and the dirty flag are unchanged; after a pointer-down or touch-start that
\* carries a position, isDragging is true and the anchor holds that position.
C19_DragEnds ==
  /\ [][last'.op \in {"mouse-up", "mouse-leave", "touch-end"} =>
          /\ ~isDragging'
          /\ dragStart' = None
          /\ UNCHANGED <<yaw, pitch, zoom, isDirty>>]_vars
  /\ [][(last'.op = "mouse-down" /\ last'.arg # None) =>
          isDragging' /\ dragStart' = last'.arg]_vars
  /\ [][(last'.op = "touch-start" /\ last'.arg # None /\ last'.arg # Some(<<>>)) =>
          isDragging' /\ dragStart' = Some(last'.arg[1][1])]_vars

\* C19 witness: a pointer-leave ended a drag that had moved the camera and
\* left the frame dirty.
C19_Witness ==
  /\ last.op = "mouse-leave"
  /\ ~isDragging
  /\ dragStart = None
  /\ isDirty
  /\ pitch # clamp(config.initialPitch, MIN_PITCH, MAX_PITCH)

\* whether the last input lacked the component its handler requires
MissingComponent(l) ==
  \/ l.op \in {"touch-start", "touch-move"} /\ l.arg \in {None, Some(<<>>)}
  \/ l.op \in {"mouse-down", "mouse-move", "wheel"} /\ l.arg = None

\* C20: an input whose required component is missing (touch-start or
\* touch-move with an empty or absent touch list, pointer-down without x or
\* y, pointer-move without dx or dy, wheel without deltaY) raises no error
\* and leaves camera state, drag anchor, dirty flag and pending-render token
\* unchanged.
C20_MissingComponentIgnored ==
  [][MissingComponent(last') =>
       /\ last'.result = "ok"
       /\ UNCHANGED <<yaw, pitch, zoom, isDragging, dragStart, isDirty,
                      animationFrameId, rafQueue>>]_vars

\* C20 witness: a pointer-move without deltas arrived during a drag, on a
\* clean frame.
C20_Witness ==
  /\ last.op = "mouse-move"
  /\ last.arg = None
  /\ isDragging
  /\ dragStart # None
  /\ ~isDirty

\* C21: setState(partial) updates exactly the fields among yaw, pitch and
\* zoom that the partial provides, each by the rule of the input transitions
\* (yaw normalized, pitch clamped to [-90, 90], zoom clamped to
\* [minZoom, maxZoom]); the fields not provided and isDragging are unchanged;
\* and every call, a call with an empty partial included, marks the frame
\* dirty and leaves a render requested.
C21_SetState ==
  [][last'.op = "set-state" =>
       LET p == last'.arg IN
       /\ yaw' = IF p.yaw # None THEN normalizeAngle(p.yaw[1]) ELSE yaw
       /\ pitch' = IF p.pitch # None
                   THEN clamp(p.pitch[1], Deg(-90), Deg(90))
                   ELSE pitch
       /\ zoom' = IF p.zoom # None
                  THEN clamp(p.zoom[1], config.minZoom, config.maxZoom)
                  ELSE zoom
       /\ isDragging' = isDragging
       /\ isDirty'
       /\ animationFrameId' # 0]_vars

\* the result of the function under evaluation
Out == probe.out[1]
Evaluated(fn) == probe.fn = fn /\ probe.out # None

\* C22: horizontal sampling wraps: for every integer k, negative included,
\* and image width W the rasterizer's wrapped column for a floored source X
\* of W + k equals its wrapped column for k, and the wrapped column always
\* lies in [0, W - 1].
C22_HorizontalWrap ==
  Evaluated("sample") =>
    LET W == probe.in.imageWidth
        k == Out.srcX
    IN /\ k = probe.in.x \div 2
       /\ Out.wrappedSrcX \in 0..(W - 1)
       /\ wrappedSrcX(W + k, W) = Out.wrappedSrcX
       /\ (Out.wrappedSrcX - k) % W = 0
       /\ Out.srcIndex = (Out.wrappedSrcY * W + Out.wrappedSrcX) * 4

\* C22 witness: a sample half a pixel to the left of an image 4 pixels wide
\* (floored source X -1) was taken from column 3.
C22_Witness ==
  /\ Evaluated("sample")
  /\ probe.in.x = -1
  /\ probe.in.imageWidth = 4
  /\ Out.srcX = -1
  /\ Out.wrappedSrcX = 3

\* C23: vertical sampling clamps: for image height H a floored source Y
\* below 0 selects row 0 and a floored source Y at or above H selects row
\* H - 1 (no wraparound), and the selected row always lies in [0, H - 1].
C23_VerticalClamp ==
  Evaluated("sample") =>
    LET H == probe.in.imageHeight
        srcY == Out.srcY
    IN /\ srcY = probe.in.y \div 2
       /\ Out.wrappedSrcY \in 0..(H - 1)
       /\ (srcY < 0 => Out.wrappedSrcY = 0)
       /\ (srcY >= H => Out.wrappedSrcY = H - 1)
       /\ (0 <= srcY /\ srcY < H => Out.wrappedSrcY = srcY)

\* C23 witness: a sample with floored source Y equal to the height 4 of the
\* image was taken from row 3.
C23_Witness ==
  /\ Evaluated("sample")
  /\ probe.in.imageHeight = 4
  /\ Out.srcY = 4
  /\ Out.wrappedSrcY = 3

\* the corners of the label under evaluation that projected to a pixel
VisibleCornersOf(o) == {i \in 1..4 : o.projectedCorners[i] # None}

\* C24: in a label draw pass a label is omitted (no fill, border or title
\* drawn) exactly when all four of its corners project to not-visible; a
\* label with at least one visible corner is drawn as the axis-aligned
\* bounding box of its visible corners only.
C24_LabelDrawn ==
  Evaluated("label") =>
    LET visible == VisibleCornersOf(Out)
        X(i) == Out.projectedCorners[i][1].x
        Y(i) == Out.projectedCorners[i][1].y
    IN /\ (visible = {} <=> Out.fillRect = None)
       /\ (visible = {} =>
             Out.strokeRect = None /\ Out.fillText = None)
       /\ (visible # {} =>
             LET rect == Out.fillRect[1] IN
             /\ Out.strokeRect = Out.fillRect
             /\ \A i \in visible :
                  /\ rect.x <= X(i) /\ X(i) <= rect.x + rect.w
                  /\ rect.y <= Y(i) /\ Y(i) <= rect.y + rect.h
             /\ \E i \in visible : X(i) = rect.x
             /\ \E i \in visible : X(i) = rect.x + rect.w
             /\ \E i \in visible : Y(i) = rect.y
             /\ \E i \in visible : Y(i) = rect.y + rect.h)

\* C24 witness: a label whose first corner is not visible and whose other
\* corners are was drawn as a box of positive width and height.
C24_Witness ==
  /\ Evaluated("label")
  /\ VisibleCornersOf(Out) = {2, 3, 4}
  /\ Out.fillRect # None
  /\ Out.fillRect[1].w > 0
  /\ Out.fillRect[1].h > 0

\* C25 (as claimed): for a drawn label the title text is drawn exactly when
\* the label has a title and its bounding box is at least 50 viewport pixels
\* wide and at least 20 high, a box of exactly 50 by 20 qualifying.
C25_Original ==
  Evaluated("label") /\ Out.fillRect # None =>
    (Out.fillText # None
       <=> /\ probe.in.label.title # ""
           /\ Out.fillRect[1].w >= 50 * PxUnit
           /\ Out.fillRect[1].h >= 20 * PxUnit)

\* C25 (amended): for a drawn label the title text is drawn, centered in the
\* box, exactly when the label has a non-empty title and its bounding box is
\* more than 50 viewport pixels wide and more than 20 high; a box of exactly
\* 50 by 20 gets no title.
C25_Title ==
  Evaluated("label") /\ Out.fillRect # None =>
    LET rect == Out.fillRect[1] IN
    /\ Out.fillText # None
         <=> /\ probe.in.label.title # ""
             /\ rect.w > 50 * PxUnit
             /\ rect.h > 20 * PxUnit
    /\ Out.fillText # None =>
         /\ Out.fillText[1].text = probe.in.label.title
         /\ 2 * Out.fillText[1].x = 2 * rect.x + rect.w
         /\ 2 * Out.fillText[1].y = 2 * rect.y + rect.h

\* C25 witness: a label with a title was drawn as a box of exactly 50 by 20
\* pixels, without its title.
C25_Witness ==
  /\ Evaluated("label")
  /\ probe.in.label.title = "T"
  /\ Out.fillRect # None
  /\ Out.fillRect[1].w = 50 * PxUnit
  /\ Out.fillRect[1].h = 20 * PxUnit
  /\ Out.fillText = None

\* C26: projectToViewport returns not-visible exactly when the un-zoomed
\* normalized coordinate has |nx| > 1.2 or |ny| > 1.2, or the zoomed pixel
\* lies more than 100 px outside the viewport on some side; otherwise it
\* returns the pixel, so that every returned (x, y) satisfies
\* -100 <= x <= W + 100 and -100 <= y <= H + 100.
C26_VisibilityGates ==
  Evaluated("label") =>
    \A i \in 1..4 :
      LET nx == probe.in.label.ndc[i][1]
          ny == probe.in.label.ndc[i][2]
          W == probe.in.viewportWidth
          H == probe.in.viewportHeight
          x == (nx * probe.in.zoom + 1000) * W
          y == (ny * probe.in.zoom + 1000) * H
          c == Out.projectedCorners[i]
      IN /\ c = None
              <=> \/ nx > 120 \/ nx < -120 \/ ny > 120 \/ ny < -120
                  \/ x < (-100) * PxUnit \/ x > (W + 100) * PxUnit
                  \/ y < (-100) * PxUnit \/ y > (H + 100) * PxUnit
         /\ c # None =>
              /\ c[1].x = x /\ c[1].y = y
              /\ (-100) * PxUnit <= c[1].x /\ c[1].x <= (W + 100) * PxUnit
              /\ (-100) * PxUnit <= c[1].y /\ c[1].y <= (H + 100) * PxUnit

\* C26 witness: at zoom 2, of one label the corner 100 px to the right of
\* the viewport was returned, the corner with nx = ny = 1.2 (within the
\* angular gate, 140 px to the right of the viewport) was not, and neither
\* was the corner with nx = 1.21.
C26_Witness ==
  /\ Evaluated("label")
  /\ probe.in.zoom = 20
  /\ probe.in.label.ndc[1] = <<100, 0>>
  /\ Out.projectedCorners[1] # None
  /\ Out.projectedCorners[1][1].x = (probe.in.viewportWidth + 100) * PxUnit
  /\ probe.in.label.ndc[2] = <<120, 120>>
  /\ Out.projectedCorners[2] = None
  /\ probe.in.label.ndc[3] = <<121, 0>>
  /\ Out.projectedCorners[3] = None

\* C27: for each of the four projection types and all nx, ny in [-1, 1]
\* anglesToViewport applied to the result of viewportToAngles reconstructs
\* (nx, ny), and at the degenerate center both directions return (0, 0).
C27_RoundTrip ==
  Evaluated("round-trip") =>
    /\ Out.nx = probe.in.nx
    /\ Out.ny = probe.in.ny
    /\ (probe.in.nx = 0 /\ probe.in.ny = 0 => Out.theta = 0 /\ Out.phi = 0)

\* C28: for every viewport pixel (x, y) of the non-clamped interior, every
\* projection type and every zoom, projectToViewport applied to
\* projectToSource(x, y, ...) with the same camera parameters returns a
\* visible pixel equal to (x, y).
C28_ProjectAndBack ==
  Evaluated("project") =>
    Out.back = Some([x |-> probe.in.x * PxUnit, y |-> probe.in.y * PxUnit])

\* the projection requested is none of the four known kinds
UnknownProjection(in) ==
  /\ in.projection # None
  /\ IF in.route = "url"
     THEN /\ in.projection[1] # ""
          /\ toLowerCaseTrim(in.projection[1]) \notin ProjectionTypes
     ELSE in.projection[1] \notin ProjectionTypes

\* C29: an unknown projection identifier falls back to the Stereographic
\* strategy: whenever the requested projection is not one of the four known
\* kinds, the mapping used for rendering and for label projection is the
\* Stereographic one.
C29_UnknownIsStereographic ==
  Evaluated("select") /\ UnknownProjection(probe.in) =>
    Out.strategy = STEREOGRAPHIC

\* C30: when the projection URL parameter is absent the viewer renders with
\* the EQUISOLID projection.
C30_DefaultIsEquisolid ==
  Evaluated("select") /\ probe.in.route = "url" /\ probe.in.projection = None =>
    Out.strategy = EQUISOLID

\* C31: with keyboard enabled a key-down with key '+' increases zoom and a
\* key-down with key '-' decreases zoom, within [minZoom, maxZoom].
C31_ZoomKeys ==
  [][last'.op = "key-down" /\ config.enableKeyboard =>
       /\ (last'.arg = "+" /\ zoom < config.maxZoom =>
             zoom < zoom' /\ zoom' <= config.maxZoom)
       /\ (last'.arg = "-" /\ zoom > config.minZoom =>
             zoom > zoom' /\ zoom' >= config.minZoom)]_vars

\* C32: on a successful loadImage the image becomes active and a render pass
\* completes before onLoad is invoked, and onLoad is invoked before the
\* returned promise resolves; onLoad is invoked exactly once per successful
\* load and never for a load that fails.
C32_OnLoadOrder ==
  /\ last.op = "img-onload" /\ last.promise = "resolved" =>
       /\ last.order = <<"image", "render", "onLoad", "resolve">>
       /\ image = last.arg
       /\ last.frame # None
       /\ last.frame[1].image = last.arg
       /\ last.onLoad = 1
  /\ last.op \in {"img-onload", "img-onerror"} /\ last.promise # "resolved" =>
       /\ last.onLoad = 0
       /\ \A i \in 1..Len(last.order) : last.order[i] # "onLoad"
  /\ last.op \notin {"img-onload"} => last.onLoad = 0

\* C32 witness: the load of a valid image resolved after one onLoad.
C32_Witness ==
  /\ last.op = "img-onload"
  /\ last.promise = "resolved"
  /\ last.onLoad = 1
  /\ image = last.arg

\* an image is loaded and the renderer is not destroyed
Alive == image # NULL /\ canvas # None

\* a drag-move, wheel, key-down, setState, setLabels or resize has just
\* taken effect: it marked the frame dirty
Mutated ==
  /\ last.op \in {"mouse-move", "touch-move", "wheel", "key-down", "set-state",
                  "set-labels", "resize"}
  /\ last.result = "ok"
  /\ isDirty

\* a render pass has just rasterized a frame with the current camera state
\* and left the frame clean
RenderedCurrent ==
  /\ last.op \in {"animation-frame", "img-onload"}
  /\ last.frame # None
  /\ last.frame[1].yaw = yaw
  /\ last.frame[1].pitch = pitch
  /\ last.frame[1].zoom = zoom
  /\ ~isDirty

\* the frame is clean and no render is pending
Settled == ~isDirty /\ animationFrameId = 0 /\ rafQueue = {}

\* C33: while an image is loaded and the renderer is not destroyed, every
\* drag-move, wheel, key-down, setState, setLabels or resize that took effect
\* is eventually followed, the display-refresh callback firing, by a render
\* pass that uses the camera state current at that time, and by a state with
\* the dirty flag false and no render pending, unless the renderer is
\* destroyed first; and a clean frame stays the frame of the current camera
\* state: a step that changes yaw, pitch or zoom leaves the frame dirty.
C33_EventuallyRendered ==
  /\ (Mutated /\ Alive) ~> (RenderedCurrent \/ canvas = None)
  /\ (Mutated /\ Alive) ~> (Settled \/ canvas = None)
  /\ [][<<yaw, pitch, zoom>>' # <<yaw, pitch, zoom>> => isDirty']_vars

\* C33 witness: after a wheel step to zoom 1.1 with an image loaded, the
\* display-refresh callback rasterized a frame at zoom 1.1 and left the frame
\* clean with no render pending.
C33_Witness ==
  /\ Alive
  /\ last.op = "animation-frame"
  /\ RenderedCurrent
  /\ Settled
  /\ zoom = 11

\* the operations the listeners attached to the canvas and the window
\* deliver to the handlers
InputOps == {"mouse-down", "mouse-move", "mouse-up", "mouse-leave", "wheel",
             "touch-start", "touch-move", "touch-end", "key-down"}

\* C34: after destroy the renderer is inert: an input event delivered by a
\* listener that is still attached, and the completion of a load that was in
\* flight when destroy was called, neither execute nor schedule a render pass
\* and raise no error.
C34_InertAfterDestroy ==
  [][(canvas = None /\ last'.op \in InputOps \cup {"img-onload", "img-onerror"}) =>
       /\ rafQueue' \subseteq rafQueue
       /\ animationFrameId' = animationFrameId
       /\ last'.frame = None
       /\ last'.result # "TypeError"]_vars

\* loadImage("B") was issued while the load of "A" was in flight
IssuedBAfterA ==
  last.op = "load-image" /\ last.arg = "B" /\ loading = {"A", "B"}

\* the load of src completed with the image valid
CompletedOk(src) ==
  last.op = "img-onload" /\ last.arg = src /\ last.promise = "resolved"

\* C35: when loadImage(A) is issued and loadImage(B) is issued before A
\* completes, both images valid, then once both loads have completed the
\* active image is B, here for the order in which B completes first: the
\* superseded load of A does not become the active image.
C35_LatestLoadWins ==
  [](IssuedBAfterA =>
       []((CompletedOk("B") /\ loading = {"A"}) =>
            [](CompletedOk("A") => image = "B")))

\* C36 (as claimed): onViewChange is invoked only when the scheduled render
\* pass actually rasterized a frame: a display-refresh callback whose render
\* is a no-op does not invoke onViewChange.
C36_Original ==
  last.onViewChange # <<>> => last.frame # None

\* C36 (amended): onViewChange is invoked by the display-refresh callback
\* alone, once and with the camera state current at that time, after every
\* render pass that raised no error, whether the pass rasterized a frame or
\* was a no-op; a callback whose render pass raised an error invokes it not
\* at all.
C36_CallbackNotifies ==
  /\ (last.onViewChange # <<>> => last.op = "animation-frame")
  /\ (last.op = "animation-frame" /\ last.result = "ok" =>
        last.onViewChange = <<ViewState>>)
  /\ (last.op = "animation-frame" /\ last.result # "ok" =>
        last.onViewChange = <<>>)

\* C36 witness: the callback of a frame requested by a wheel event found the
\* frame already clean, because a load completed and rendered in between,
\* and invoked onViewChange with the zoomed state.
C36_Witness ==
  /\ last.op = "animation-frame"
  /\ last.frame = None
  /\ image # NULL
  /\ ~isDirty
  /\ zoom # config.initialZoom
  /\ last.onViewChange = <<ViewState>>

\* C37: in every reachable state isDragging is true exactly when a drag
\* anchor is recorded, across any interleaving of pointer, touch, wheel, key
\* and setState operations.
C37_DraggingIffAnchor == isDragging <=> dragStart # None

\* C37 witness: a drag begun at one position whose anchor a touch-move has
\* moved to another, the camera turned by it, and the flag still up.
C37_Witness ==
  /\ last.op = "touch-move"
  /\ isDragging
  /\ dragStart = Some([x |-> 20, y |-> 10])
  /\ yaw # config.initialYaw

\* C37 second witness state: setState asked for isDragging while no drag was
\* under way, and neither flag nor anchor followed.
C37_SetStateIgnored ==
  /\ last.op = "set-state"
  /\ last.arg.isDragging = Some(TRUE)
  /\ ~isDragging
  /\ dragStart = None

\* the yaw after key-down(ArrowLeft) followed by key-down(ArrowRight), from
\* yaw y with keyboard enabled
LeftThenRight(y) == NormalizedSum(NormalizedSum(y, 0 - step), step)

\* C38: for every reachable yaw value, with keyboard enabled, key-down
\* (ArrowLeft) followed by key-down(ArrowRight) restores exactly the same
\* reported yaw value, including when the intermediate step wraps across the
\* +-180 seam; stated for the yaw values within [-180, 180].
C38_LeftRightRestores ==
  (config.enableKeyboard /\ Yaw(-180) <= yaw /\ yaw <= Yaw(180)) =>
    LeftThenRight(yaw) = yaw

\* sensitivities in half degrees per pixel (0.5, 1, 1.5 degrees per pixel)
Sensitivities == {1, 2, 3}

\* C39: during drag-move the per-axis drag velocity equals the configured
\* sensitivity for every projection type, because the falloff is evaluated at
\* the viewport centre: yaw changes by -dx * sensitivity and pitch by
\* -dy * sensitivity before clamping and normalization, independent of
\* projectionType and of the cursor position.
C39_DragVelocity ==
  /\ [][(last'.op = "mouse-move" /\ Moves(last'.arg)) =>
          /\ yaw' = NormalizedSum(yaw, 0 - last'.arg[1].dx * config.sensitivity)
          /\ pitch' = clamp(pitch - last'.arg[1].dy * config.sensitivity,
                            MIN_PITCH, MAX_PITCH)]_vars
  /\ [][(last'.op = "touch-move" /\ Moves(TouchDelta(last'.arg))) =>
          LET d == TouchDelta(last'.arg)[1] IN
          /\ yaw' = NormalizedSum(yaw, 0 - d.dx * config.sensitivity)
          /\ pitch' = clamp(pitch - d.dy * config.sensitivity,
                            MIN_PITCH, MAX_PITCH)]_vars
  /\ [](\A type \in ProjectionTypes \cup {"bogus"}, s \in Sensitivities :
          getDragVelocity(getProjectionStrategy(type), DragPoint.nx,
                          DragPoint.ny, s) = [x |-> s, y |-> s])

\* C39 witness: a drag-move of (10, -4) pixels under the stereographic
\* strategy (whose falloff is a cosine) with sensitivity 0.5 turned the pitch
\* from -90 by 4 half degrees and the yaw by -10 half degrees.
C39_Witness ==
  /\ last.op = "mouse-move"
  /\ last.arg = Some([dx |-> 10, dy |-> -4])
  /\ getProjectionStrategy(projectionType) = STEREOGRAPHIC
  /\ config.sensitivity = 1
  /\ pitch = MIN_PITCH + 4
  /\ yaw = NormalizedSum(config.initialYaw, -10)

====
